---- MODULE Spec2Model ----
(***************************************************************************)
(* State-machine model of the Feetech motor bus                            *)
(* (src/lerobot/common/motors/feetech/feetech.py, class FeetechMotorsBus)  *)
(* and of the pure helpers it uses.                                        *)
(*                                                                         *)
(* One action per public method.  A method that raises is modelled by the  *)
(* action setting err to the name of the exception and leaving the fields  *)
(* as the code has left them at the raise.  The serial SDK (scservo_sdk)   *)
(* is the environment: an exchange fails on its first num_invalid_try      *)
(* attempts and then succeeds, as the transport stub of the tests does.    *)
(*                                                                         *)
(* Numbers that numpy holds as floats are kept as exact fractions          *)
(* <<numerator, denominator>> (denominator 0 for inf / nan).               *)
(* The timing dictionary self.logs is write-only and is not modelled.      *)
(***************************************************************************)
EXTENDS Integers, Sequences, FiniteSets, TLC

(***************************************************************************)
(* Program constants                                                       *)
(***************************************************************************)
TIMEOUT_MS == 1000

MAX_ID_RANGE == 252

BAUDRATE == 1000000

LOWER_BOUND_LINEAR == -10

UPPER_BOUND_LINEAR == 110

NUM_READ_RETRY == 20

NUM_WRITE_RETRY == 20

CALIBRATION_REQUIRED == {"Goal_Position", "Present_Position"}

\* MODEL_RESOLUTION[model]
MODEL_RESOLUTION(model) == 4096

(***************************************************************************)
(* Bounds of the model                                                     *)
(***************************************************************************)
\* port/packet handler pairs that one behaviour may construct
MaxHandlers == 2

\* group objects the two caches may hold together
MaxGroups == 2

\* largest explicit num_retry argument tried (the default is tried too)
MaxNumRetry == 2

\* largest small number of failing attempts of the transport
MaxInvalidTry == 3

\* distance between the raw ticks sampled across a turn
TickStride == 256

\* largest byte width given to the codec
MaxWidth == 5

\* the codec is given every value from 0 to this one, and the edges of each width
MaxSweep == 40

\* None, for a handler
None == 0

\* None, for self.calibration
NoCalibration == [none |-> TRUE]

\* no packet was put on the wire
NoPacket == [kind |-> "none"]

NoError == "none"

(***************************************************************************)
(* Generic helpers                                                         *)
(***************************************************************************)
Range(s) == {s[i] : i \in DOMAIN s}

Abs(a) == IF a < 0 THEN -a ELSE a

RECURSIVE GCD(_, _)
GCD(a, b) == IF b = 0 THEN a ELSE GCD(b, a % b)

\* the fraction n/d in lowest terms with a positive denominator;
\* d = 0 gives <<1,0>> (inf), <<-1,0>> (-inf) or <<0,0>> (nan)
Rat(n, d) ==
    IF d = 0 THEN <<(IF n > 0 THEN 1 ELSE IF n < 0 THEN -1 ELSE 0), 0>>
    ELSE LET s == IF d < 0 THEN -1 ELSE 1
             g == GCD(Abs(n), Abs(d))
         IN  <<(s * n) \div g, (s * d) \div g>>

RatOfInt(n) == <<n, 1>>

IsFinite(r) == r[2] # 0

IsNaN(r) == r = <<0, 0>>

\* r < k for an integer k, as IEEE comparison does it (nan compares false)
RatLess(r, k) ==
    IF r[2] = 0 THEN r[1] < 0 ELSE r[1] < k * r[2]

\* r >= k in place of r > k
RatGreater_or_equal(r, k) ==
    IF r[2] = 0 THEN r[1] > 0 ELSE r[1] >= k * r[2]

\* r > k for an integer k
RatGreater(r, k) ==
    IF r[2] = 0 THEN r[1] > 0 ELSE r[1] > k * r[2]

(***************************************************************************)
(* Control tables.  Only the registers the model reads or writes are kept; *)
(* a register is <<address, size in bytes>>.                               *)
(***************************************************************************)
SCS_SERIES_CONTROL_TABLE ==
    [n \in {"ID", "Goal_Position", "Present_Position"} |->
        CASE n = "ID" -> <<5, 1>>
          [] n = "Goal_Position" -> <<42, 2>>
          [] n = "Present_Position" -> <<56, 2>>]

MODEL_CONTROL_TABLE ==
    [m \in {"scs_series", "sts3215"} |-> SCS_SERIES_CONTROL_TABLE]

\* model_ctrl_table is a per-instance copy that the owner of the bus may
\* edit; these two edits make the two models disagree on a register, which
\* is the case assert_same_address exists for
AddressDiffersTable ==
    [MODEL_CONTROL_TABLE EXCEPT !["scs_series"]["Present_Position"] = <<57, 2>>,
                                !["scs_series"]["Goal_Position"] = <<43, 2>>]

BytesDiffersTable ==
    [MODEL_CONTROL_TABLE EXCEPT !["scs_series"]["Present_Position"] = <<56, 1>>,
                                !["scs_series"]["Goal_Position"] = <<42, 1>>]

\* an edit after which one model lacks the position registers the other has
MissingRegisterTable ==
    [m \in {"scs_series", "sts3215"} |->
        IF m = "scs_series" THEN [n \in {"ID"} |-> <<5, 1>>]
        ELSE SCS_SERIES_CONTROL_TABLE]

CtrlTables ==
    {MODEL_CONTROL_TABLE, AddressDiffersTable, BytesDiffersTable, MissingRegisterTable}

\* the registers the callers of the model name; the last one is in no table
DataNames == {"Present_Position", "Goal_Position", "ID", "Unknown_Register"}

(***************************************************************************)
(* The motors argument of __init__: name -> (index, model), in insertion   *)
(* order.                                                                  *)
(***************************************************************************)
Motor(name, idx, model) == [name |-> name, idx |-> idx, model |-> model]

UniformMotors ==
    << Motor("shoulder_pan", 1, "sts3215"), Motor("gripper", 2, "sts3215") >>

MixedMotors ==
    << Motor("shoulder_pan", 1, "scs_series"), Motor("gripper", 2, "sts3215") >>

\* the motors SO100Follower and SO100Robot give their arm
SO100Motors ==
    << Motor("shoulder_pan", 1, "sts3215"), Motor("shoulder_lift", 2, "sts3215"),
       Motor("elbow_flex", 3, "sts3215"), Motor("wrist_flex", 4, "sts3215"),
       Motor("wrist_roll", 5, "sts3215"), Motor("gripper", 6, "sts3215") >>

MotorConfigs == {UniformMotors, MixedMotors}

(***************************************************************************)
(* State                                                                   *)
(***************************************************************************)
VARIABLES
    motors,            \* self.motors
    model_ctrl_table,  \* self.model_ctrl_table
    port_handler,      \* self.port_handler: None or a handler identity
    packet_handler,    \* self.packet_handler: None or a handler identity
    calibration,       \* self.calibration: None or a calibration dictionary
    is_connected,      \* self.is_connected
    group_readers,     \* self.group_readers: group key -> GroupSyncRead
    group_writers,     \* self.group_writers: group key -> GroupSyncWrite
    \* the serial SDK
    next_handler,      \* identity of the next handler pair constructed
    port_open,         \* port handlers whose port is open
    packet_timeout,    \* port handler -> packet timeout set on it
    \* what the last call did
    op,                \* the method called and its arguments
    before,            \* the session as that call found it
    wire,              \* the packet it put on the wire last
    err,               \* the exception it raised, or NoError
    ret,               \* the value it returned
    calls,             \* transport invocations it made
    built,             \* group objects it constructed
    resolved,          \* whether it looked the register up
    \* the robot that owns the bus
    robot_calibration, \* self.calibration of the robot: motor name -> entry, or none
    calibration_file,  \* the calibration file of the robot, or none
    robot_class,       \* the class of the robot
    steps,             \* the calls the last procedure made on the bus, in order
    \* two instances of the bus and the objects they refer to
    instances,         \* instance -> its attributes, a dictionary by its reference
    heap,              \* reference -> the dictionary it refers to
    open_ports,        \* the ports that are open
    \* the serial adapter
    baudrate,          \* port handler -> the baud rate last set on its port
    \* the joystick: the reader process and a caller of get_action
    latest_data,       \* self.latest_data, the dictionary of the manager
    joy_reader,        \* the reader process: its place, its action and its buttons
    joy_caller,        \* the caller of get_action: its place and what it has read
    published,         \* the pairs of action and buttons the updates have published
    updates            \* the updates the reader has made

bus == <<motors, model_ctrl_table, port_handler, packet_handler, calibration,
         is_connected, group_readers, group_writers>>

sdk == <<next_handler, port_open, packet_timeout>>

last == <<op, before, wire, err, ret, calls, built, resolved>>

robot == <<robot_calibration, calibration_file, robot_class, steps>>

fleet == <<instances, heap, open_ports>>

adapter == <<baudrate>>

joystick == <<latest_data, joy_reader, joy_caller, published, updates>>

vars == <<bus, sdk, last, robot, fleet, adapter, joystick>>

NoRet == [none |-> TRUE]

EmptyCache == [k \in {} |-> None]

\* the session fields a call finds
Snapshot ==
    [is_connected |-> is_connected, port_handler |-> port_handler,
     packet_handler |-> packet_handler,
     readers |-> DOMAIN group_readers, writers |-> DOMAIN group_writers]

\* the call o starts; a call on the bus leaves the robot's own state alone
Called(o) ==
    /\ op' = o
    /\ before' = Snapshot
    /\ UNCHANGED <<robot, fleet, adapter, joystick>>

\* the procedure o starts: a call that works through the robot or makes
\* several calls on the bus
CalledProcedure(o) ==
    /\ op' = o
    /\ before' = Snapshot
    /\ UNCHANGED <<fleet, adapter, joystick>>

\* the two instances kept by reference
Buses == {1, 2}

NoInstance == [constructed |-> FALSE]

\* __init__ of the bus with the motors given and the control table it works
\* on, inside a robot that has no calibration yet
InitBus(the_motors, table) ==
    /\ motors = the_motors
    /\ model_ctrl_table = table
    /\ port_handler = None
    /\ packet_handler = None
    /\ calibration = NoCalibration
    /\ is_connected = FALSE
    /\ group_readers = EmptyCache
    /\ group_writers = EmptyCache
    /\ next_handler = 1
    /\ port_open = {}
    /\ packet_timeout = [h \in {} |-> 0]
    /\ wire = NoPacket
    /\ op = [name |-> "__init__"]
    /\ before = [is_connected |-> FALSE, port_handler |-> None, packet_handler |-> None,
                 readers |-> {}, writers |-> {}]
    /\ err = NoError
    /\ ret = NoRet
    /\ calls = 0
    /\ built = 0
    /\ resolved = FALSE
    /\ robot_calibration = NoCalibration
    /\ calibration_file = NoCalibration
    /\ steps = <<>>
    \* no instance by reference yet; the table of the module is object 1
    /\ instances = [b \in Buses |-> NoInstance]
    /\ heap = [r \in {1} |-> MODEL_CONTROL_TABLE]
    /\ open_ports = {}
    /\ baudrate = [h \in {} |-> 0]
    \* JoystickInterface.__init__: the dictionary holds the rest action and no
    \* button, the reader process is started
    /\ latest_data = [action |-> 0, buttons |-> FALSE]
    /\ joy_reader = [pc |-> "get_gamepad", action |-> 0, buttons |-> FALSE]
    /\ joy_caller = [pc |-> "idle", action |-> 0, buttons |-> FALSE]
    /\ published = {<<0, FALSE>>}
    /\ updates = 0

\* __init__ with the motors given and the control table the bus works on
InitWith(the_motors, table) ==
    /\ InitBus(the_motors, table)
    /\ robot_class = "SO100Follower"

Init == InitWith(MixedMotors, MODEL_CONTROL_TABLE)

\* what a call that touches neither the transport nor a register reports
NoTransaction ==
    /\ calls' = 0
    /\ built' = 0
    /\ resolved' = FALSE
    /\ ret' = NoRet
    /\ wire' = NoPacket

(***************************************************************************)
(* Session lifecycle                                                       *)
(***************************************************************************)
\* connect() whose caller closes the port again when a later step raises
OpenSession_rolled_back(open_ok, e) ==
    /\ next_handler <= MaxHandlers
    /\ port_handler' = next_handler
    /\ packet_handler' = next_handler
    /\ next_handler' = next_handler + 1
    /\ IF open_ok /\ e = NoError
       THEN /\ port_open' = port_open \cup {next_handler}
            /\ is_connected' = TRUE
            /\ packet_timeout' =
                 [h \in DOMAIN packet_timeout \cup {next_handler} |->
                    IF h = next_handler THEN TIMEOUT_MS ELSE packet_timeout[h]]
            /\ err' = e
       ELSE /\ err' = IF open_ok THEN e ELSE "OSError"
            /\ UNCHANGED <<port_open, is_connected, packet_timeout>>

\* connect() that sets is_connected before it opens the port
OpenSession_connected_first(open_ok, e) ==
    /\ next_handler <= MaxHandlers
    /\ port_handler' = next_handler
    /\ packet_handler' = next_handler
    /\ next_handler' = next_handler + 1
    /\ is_connected' = TRUE
    /\ IF open_ok
       THEN /\ port_open' = port_open \cup {next_handler}
            /\ packet_timeout' =
                 [h \in DOMAIN packet_timeout \cup {next_handler} |->
                    IF h = next_handler THEN TIMEOUT_MS ELSE packet_timeout[h]]
            /\ err' = e
       ELSE /\ err' = "OSError"
            /\ UNCHANGED <<port_open, packet_timeout>>

\* connect() past its guard: the handlers are made and the port is opened;
\* open_ok is whether PortHandler.openPort() succeeds, e what the caller
\* raises after a successful open
OpenSession(open_ok, e) ==
    /\ next_handler <= MaxHandlers
    /\ port_handler' = next_handler
    /\ packet_handler' = next_handler
    /\ next_handler' = next_handler + 1
    /\ IF open_ok
       THEN /\ port_open' = port_open \cup {next_handler}
            /\ is_connected' = TRUE
            /\ packet_timeout' =
                 [h \in DOMAIN packet_timeout \cup {next_handler} |->
                    IF h = next_handler THEN TIMEOUT_MS ELSE packet_timeout[h]]
            /\ err' = e
       ELSE /\ err' = "OSError"
            /\ UNCHANGED <<port_open, is_connected, packet_timeout>>

\* connect() without its guard on is_connected
connect_unguarded(open_ok) ==
    /\ Called([name |-> "connect"])
    /\ NoTransaction
    /\ UNCHANGED <<motors, model_ctrl_table, calibration, group_readers, group_writers>>
    /\ OpenSession(open_ok, NoError)

\* connect()
connect(open_ok) ==
    /\ Called([name |-> "connect"])
    /\ NoTransaction
    /\ UNCHANGED <<motors, model_ctrl_table, calibration, group_readers, group_writers>>
    /\ IF is_connected
       THEN /\ err' = "DeviceAlreadyConnectedError"
            /\ UNCHANGED <<port_handler, packet_handler, is_connected,
                           next_handler, port_open, packet_timeout>>
       ELSE OpenSession(open_ok, NoError)

\* the steps of the robot's connect() after arm.connect(): calibrate() when
\* the arm is not calibrated, the cameras, configure()
RobotSteps == {"calibrate", "cameras", "configure"}

\* the entries of the robot's calibration that hold what the dictionary calib
\* of the bus holds
EntriesOf(calib) ==
    [n \in Range(calib.motor_names) |->
        LET i == CHOOSE j \in DOMAIN calib.motor_names : calib.motor_names[j] = n
            m == CHOOSE j \in DOMAIN motors : motors[j].name = n
        IN  [id |-> motors[m].idx,
             drive_mode |-> calib.drive_mode[i],
             homing_offset |-> calib.homing_offset[i],
             range_min |-> calib.start_pos[i],
             range_max |-> calib.end_pos[i]]]

\* SO100Follower.connect(); failed is the step that raises, or "none".
\* The bus methods those steps call are not part of the bus above: a step is
\* an outcome of the environment, and calibrate() leaves a calibration.
SO100Follower_connect(open_ok, failed, calib) ==
    /\ CalledProcedure([name |-> "SO100Follower.connect", failed |-> failed])
    /\ NoTransaction
    /\ UNCHANGED <<motors, model_ctrl_table, group_readers, group_writers, robot_class>>
    /\ steps' = <<>>
    /\ IF is_connected
       THEN /\ err' = "DeviceAlreadyConnectedError"
            /\ UNCHANGED <<port_handler, packet_handler, is_connected, calibration,
                           next_handler, port_open, packet_timeout,
                           robot_calibration, calibration_file>>
       ELSE /\ OpenSession(open_ok, IF failed = "none" THEN NoError ELSE "ConnectionError")
            /\ (failed = "calibrate") => calibration = NoCalibration
            /\ calibration' = IF open_ok /\ calibration = NoCalibration /\ failed # "calibrate"
                              THEN calib ELSE calibration
            \* a calibrate() that went through has saved what it assembled
            /\ IF open_ok /\ calibration = NoCalibration /\ failed # "calibrate"
               THEN /\ robot_calibration' = EntriesOf(calib)
                    /\ calibration_file' = EntriesOf(calib)
               ELSE UNCHANGED <<robot_calibration, calibration_file>>

\* reconnect()
reconnect(open_ok) ==
    /\ Called([name |-> "reconnect"])
    /\ NoTransaction
    /\ UNCHANGED <<motors, model_ctrl_table, calibration, group_readers, group_writers,
                   packet_timeout>>
    /\ next_handler <= MaxHandlers
    /\ port_handler' = next_handler
    /\ packet_handler' = next_handler
    /\ next_handler' = next_handler + 1
    /\ IF open_ok
       THEN /\ port_open' = port_open \cup {next_handler}
            /\ is_connected' = TRUE
            /\ err' = NoError
       ELSE /\ err' = "OSError"
            /\ UNCHANGED <<port_open, is_connected>>

\* disconnect() that forgets self.group_writers = {}
disconnect_leaves_writers ==
    /\ Called([name |-> "disconnect"])
    /\ NoTransaction
    /\ UNCHANGED <<motors, model_ctrl_table, calibration, next_handler, packet_timeout>>
    /\ IF ~is_connected
       THEN /\ err' = "DeviceNotConnectedError"
            /\ UNCHANGED <<port_handler, packet_handler, is_connected,
                           group_readers, group_writers, port_open>>
       ELSE /\ port_open' = IF port_handler # None
                            THEN port_open \ {port_handler} ELSE port_open
            /\ port_handler' = None
            /\ packet_handler' = None
            /\ group_readers' = EmptyCache
            /\ UNCHANGED group_writers
            /\ is_connected' = FALSE
            /\ err' = NoError

\* the body of disconnect()
disconnect_body ==
    /\ NoTransaction
    /\ UNCHANGED <<motors, model_ctrl_table, calibration, next_handler, packet_timeout>>
    /\ IF ~is_connected
       THEN /\ err' = "DeviceNotConnectedError"
            /\ UNCHANGED <<port_handler, packet_handler, is_connected,
                           group_readers, group_writers, port_open>>
       ELSE /\ port_open' = IF port_handler # None
                            THEN port_open \ {port_handler} ELSE port_open
            /\ port_handler' = None
            /\ packet_handler' = None
            /\ group_readers' = EmptyCache
            /\ group_writers' = EmptyCache
            /\ is_connected' = FALSE
            /\ err' = NoError

\* disconnect()
disconnect ==
    /\ Called([name |-> "disconnect"])
    /\ disconnect_body

\* __del__() that calls disconnect() whatever is_connected says
del_unguarded ==
    /\ Called([name |-> "__del__"])
    /\ disconnect_body

\* __del__(): disconnect() when getattr(self, "is_connected", False)
__del__ ==
    /\ Called([name |-> "__del__"])
    /\ IF is_connected
       THEN disconnect_body
       ELSE /\ NoTransaction
            /\ err' = NoError
            /\ UNCHANGED <<bus, sdk>>

(***************************************************************************)
(* Python and numpy conversions                                            *)
(***************************************************************************)
\* int(x), and the cast numpy makes when a float is stored into an integer
\* array: truncation toward zero
TruncToZero(r) ==
    IF r[1] >= 0 THEN r[1] \div r[2] ELSE -((-r[1]) \div r[2])

\* np.round(x): to the nearest integer, a tie to the even one
RoundHalfEven(r) ==
    LET fl  == r[1] \div r[2]
        rem == r[1] % r[2]
    IN  IF 2 * rem < r[2] THEN fl
        ELSE IF 2 * rem > r[2] THEN fl + 1
        ELSE IF fl % 2 = 0 THEN fl ELSE fl + 1

\* seq[i] with Python's 0-based index i, negative indices counting from the end
PyIndexOk(seq, i) == -Len(seq) <= i /\ i < Len(seq)

PyIndex(seq, i) == IF i >= 0 THEN seq[i + 1] ELSE seq[Len(seq) + i + 1]

\* list.index(x) is defined when x is in the list
IndexOf(seq, x) == CHOOSE i \in DOMAIN seq : seq[i] = x /\ \A j \in 1..(i - 1) : seq[j] # x

\* the first exception of a loop whose iterations are independent
FirstError(errs) ==
    IF \A i \in DOMAIN errs : errs[i] = NoError THEN NoError
    ELSE errs[CHOOSE i \in DOMAIN errs :
                 errs[i] # NoError /\ \A j \in 1..(i - 1) : errs[j] = NoError]

(***************************************************************************)
(* Motor properties of the bus                                             *)
(***************************************************************************)
motor_names == [i \in DOMAIN motors |-> motors[i].name]

motor_models == [i \in DOMAIN motors |-> motors[i].model]

motor_indices == [i \in DOMAIN motors |-> motors[i].idx]

\* self.motors[name]
MotorOf(name) == motors[IndexOf(motor_names, name)]

(***************************************************************************)
(* Calibration                                                             *)
(***************************************************************************)
convert_ticks_to_degrees(ticks, model) ==
    Rat(ticks * 360, MODEL_RESOLUTION(model))

\* int(degrees * (resolutions / 360.0))
convert_degrees_to_ticks(degrees, model) ==
    TruncToZero(Rat(degrees[1] * MODEL_RESOLUTION(model), degrees[2] * 360))

\* the drive_mode that both tick adjustments read: calibration["drive_mode"][motor_id - 1]
DriveModeOk(calib, motor_id) ==
    calib = NoCalibration \/ PyIndexOk(calib.drive_mode, motor_id - 1)

DriveModeOf(calib, motor_id) ==
    IF calib = NoCalibration THEN 0 ELSE PyIndex(calib.drive_mode, motor_id - 1)

adjusted_to_homing_ticks(raw_motor_ticks, model, calib, motor_id) ==
    LET resolutions == MODEL_RESOLUTION(model)
        shifted == (raw_motor_ticks - (resolutions \div 2)) % resolutions
        ticks == IF shifted > (resolutions \div 2) THEN shifted - resolutions ELSE shifted
    IN  IF DriveModeOf(calib, motor_id) # 0 THEN -ticks ELSE ticks

\* adjusted_to_motor_ticks that ignores drive_mode
adjusted_to_motor_ticks_no_flip(adjusted_pos, model, calib, motor_id) ==
    (adjusted_pos + (MODEL_RESOLUTION(model) \div 2)) % MODEL_RESOLUTION(model)

adjusted_to_motor_ticks(adjusted_pos, model, calib, motor_id) ==
    LET resolutions == MODEL_RESOLUTION(model)
        pos == IF DriveModeOf(calib, motor_id) # 0 THEN -adjusted_pos ELSE adjusted_pos
    IN  (pos + (resolutions \div 2)) % resolutions

\* one iteration of the loop of apply_calibration: [err, value]
apply_one(calib, raw, name) ==
    IF name \notin Range(calib.motor_names)
    THEN [err |-> "ValueError", value |-> RatOfInt(raw)]
    ELSE
    LET calib_idx == IndexOf(calib.motor_names, name)
        calib_mode == calib.calib_mode[calib_idx]
        m == MotorOf(name)
    IN  IF calib_mode = "DEGREE"
        THEN IF ~DriveModeOk(calib, m.idx)
             THEN [err |-> "IndexError", value |-> RatOfInt(raw)]
             ELSE [err |-> NoError,
                   value |-> convert_ticks_to_degrees(
                               adjusted_to_homing_ticks(raw, m.model, calib, m.idx), m.model)]
        ELSE IF calib_mode = "LINEAR"
        THEN LET start_pos == calib.start_pos[calib_idx]
                 end_pos == calib.end_pos[calib_idx]
                 v == Rat((raw - start_pos) * 100, end_pos - start_pos)
             IN  IF RatLess(v, LOWER_BOUND_LINEAR) \/ RatGreater(v, UPPER_BOUND_LINEAR)
                 THEN [err |-> "JointOutOfRangeError", value |-> v]
                 ELSE [err |-> NoError, value |-> v]
        ELSE [err |-> "KeyError", value |-> RatOfInt(raw)]

\* apply_calibration(values, motor_names): [err, values]
apply_calibration(calib, values, names) ==
    LET each == [i \in DOMAIN names |-> apply_one(calib, values[i], names[i])]
    IN  [err |-> FirstError([i \in DOMAIN names |-> each[i].err]),
         values |-> [i \in DOMAIN names |-> each[i].value]]

\* what storing x into values[i] keeps: an integer array truncates it
Stored(dtype, x) == IF dtype = "int" THEN RatOfInt(TruncToZero(x)) ELSE x

\* one iteration of the loop of revert_calibration: [err, value]
revert_one(calib, dtype, v, name) ==
    IF name \notin Range(calib.motor_names)
    THEN [err |-> "ValueError", value |-> v]
    ELSE
    LET calib_idx == IndexOf(calib.motor_names, name)
        calib_mode == calib.calib_mode[calib_idx]
        m == MotorOf(name)
    IN  IF calib_mode = "DEGREE"
        THEN IF ~DriveModeOk(calib, m.idx)
             THEN [err |-> "IndexError", value |-> v]
             ELSE [err |-> NoError,
                   value |-> RatOfInt(adjusted_to_motor_ticks(
                               convert_degrees_to_ticks(v, m.model), m.model, calib, m.idx))]
        ELSE IF calib_mode = "LINEAR"
        THEN LET start_pos == calib.start_pos[calib_idx]
                 end_pos == calib.end_pos[calib_idx]
             IN  [err |-> NoError,
                  value |-> Stored(dtype,
                              Rat(v[1] * (end_pos - start_pos) + 100 * v[2] * start_pos,
                                  100 * v[2]))]
        ELSE [err |-> "KeyError", value |-> v]

\* revert_calibration(values, motor_names): [err, values], the values integers
revert_calibration(calib, dtype, values, names) ==
    LET each == [i \in DOMAIN names |-> revert_one(calib, dtype, values[i], names[i])]
        e == FirstError([i \in DOMAIN names |-> each[i].err])
    IN  [err |-> e,
         values |-> IF e = NoError
                    THEN [i \in DOMAIN values |->
                            IF i \in DOMAIN names
                            THEN RoundHalfEven(each[i].value)
                            ELSE RoundHalfEven(values[i])]
                    ELSE <<>>]

(***************************************************************************)
(* Byte codec                                                              *)
(***************************************************************************)
\* scs.SCS_LOWORD, SCS_HIWORD, SCS_LOBYTE, SCS_HIBYTE
SCS_LOWORD(l) == l % 65536

SCS_HIWORD(l) == (l \div 65536) % 65536

SCS_LOBYTE(w) == w % 256

SCS_HIBYTE(w) == (w \div 256) % 256

\* convert_to_bytes with the most significant byte first
convert_to_bytes_big_endian(value, bytes) ==
    IF bytes = 1
    THEN [err |-> NoError, data |-> <<SCS_LOBYTE(SCS_LOWORD(value))>>]
    ELSE IF bytes = 2
    THEN [err |-> NoError,
          data |-> <<SCS_HIBYTE(SCS_LOWORD(value)), SCS_LOBYTE(SCS_LOWORD(value))>>]
    ELSE IF bytes = 4
    THEN [err |-> NoError,
          data |-> <<SCS_HIBYTE(SCS_HIWORD(value)), SCS_LOBYTE(SCS_HIWORD(value)),
                     SCS_HIBYTE(SCS_LOWORD(value)), SCS_LOBYTE(SCS_LOWORD(value))>>]
    ELSE [err |-> "NotImplementedError", data |-> <<>>]

\* convert_to_bytes whose last branch is an else, not a test for 4 bytes
convert_to_bytes_else_4(value, bytes) ==
    IF bytes = 1
    THEN [err |-> NoError, data |-> <<SCS_LOBYTE(SCS_LOWORD(value))>>]
    ELSE IF bytes = 2
    THEN [err |-> NoError,
          data |-> <<SCS_LOBYTE(SCS_LOWORD(value)), SCS_HIBYTE(SCS_LOWORD(value))>>]
    ELSE [err |-> NoError,
          data |-> <<SCS_LOBYTE(SCS_LOWORD(value)), SCS_HIBYTE(SCS_LOWORD(value)),
                     SCS_LOBYTE(SCS_HIWORD(value)), SCS_HIBYTE(SCS_HIWORD(value))>>]

\* convert_to_bytes(value, bytes) with mock = False: [err, data]
convert_to_bytes(value, bytes) ==
    IF bytes = 1
    THEN [err |-> NoError, data |-> <<SCS_LOBYTE(SCS_LOWORD(value))>>]
    ELSE IF bytes = 2
    THEN [err |-> NoError,
          data |-> <<SCS_LOBYTE(SCS_LOWORD(value)), SCS_HIBYTE(SCS_LOWORD(value))>>]
    ELSE IF bytes = 4
    THEN [err |-> NoError,
          data |-> <<SCS_LOBYTE(SCS_LOWORD(value)), SCS_HIBYTE(SCS_LOWORD(value)),
                     SCS_LOBYTE(SCS_HIWORD(value)), SCS_HIBYTE(SCS_HIWORD(value))>>]
    ELSE [err |-> "NotImplementedError", data |-> <<>>]

(***************************************************************************)
(* Group keys and the mixed-model guard                                    *)
(***************************************************************************)
RECURSIVE Join(_)
\* "_".join(names)
Join(names) ==
    IF names = <<>> THEN ""
    ELSE IF Len(names) = 1 THEN names[1]
    ELSE names[1] \o "_" \o Join(Tail(names))

get_group_sync_key(data_name, names) == data_name \o "_" \o Join(names)

\* assert_same_address(model_ctrl_table, motor_models, data_name): the
\* exception it raises, or NoError
assert_same_address(table, models, data_name) ==
    IF \E i \in DOMAIN models :
          models[i] \notin DOMAIN table \/ data_name \notin DOMAIN table[models[i]]
    THEN "KeyError"
    ELSE LET all_addr == {table[models[i]][data_name][1] : i \in DOMAIN models}
             all_bytes == {table[models[i]][data_name][2] : i \in DOMAIN models}
         IN  IF Cardinality(all_addr) # 1 THEN "NotImplementedError"
             ELSE IF Cardinality(all_bytes) # 1 THEN "NotImplementedError"
             ELSE NoError

(***************************************************************************)
(* The serial SDK and the devices on the line                              *)
(***************************************************************************)
\* raw register contents of the device with id idx
Memory(idx, addr) ==
    CASE addr = 5 -> idx
      [] addr = 56 -> (IF idx = 1 THEN 1337 ELSE IF idx = 2 THEN 42 ELSE 4016)
      [] addr = 42 -> 2048
      [] OTHER -> 0

\* failing attempts the transport may start a call with
InvalidTries ==
    (0..MaxInvalidTry) \cup {NUM_READ_RETRY - 1, NUM_READ_RETRY, NUM_READ_RETRY + 1}

\* num_retry arguments tried
NumRetries == (0..MaxNumRetry) \cup {NUM_READ_RETRY}

\* for _ in range(limit): comm = txRxPacket(); break on success -- on a
\* transport that fails its first k attempts: the invocations made
Attempts(limit, k) == IF k < limit THEN k + 1 ELSE limit

\* whether comm is COMM_SUCCESS after that loop
LoopSucceeds(limit, k) == k < limit

\* scs.GroupSyncRead(port, ph, addr, bytes) followed by addParam(idx) for idx in ids
GroupSyncRead(port, ph, addr, bytes, ids) ==
    [port |-> port, ph |-> ph, start_address |-> addr, data_length |-> bytes,
     ids |-> ids, data |-> [i \in {} |-> 0]]

\* the reader after an exchange in which its first n devices answered
Received(group, n) ==
    [group EXCEPT !.data = [i \in {group.ids[j] : j \in 1..n} |->
                               Memory(i, group.start_address)]]

\* scs.GroupSyncWrite(port, ph, addr, bytes) followed by addParam(idx, data)
GroupSyncWrite(port, ph, addr, bytes, ids, datas) ==
    [port |-> port, ph |-> ph, start_address |-> addr, data_length |-> bytes,
     params |-> [i \in DOMAIN ids |-> <<ids[i], datas[i]>>]]

Put(cache, key, group) ==
    [k \in DOMAIN cache \cup {key} |-> IF k = key THEN group ELSE cache[k]]

CachedGroups(readers, writers) == Cardinality(DOMAIN readers) + Cardinality(DOMAIN writers)

(***************************************************************************)
(* Arguments the callers pass                                              *)
(***************************************************************************)
\* motor_names of read and write: None, one name, or a list of names
Selectors ==
    { [kind |-> "None"],
      [kind |-> "str", name |-> "gripper"],
      [kind |-> "list", names |-> <<"gripper", "shoulder_pan">>] }

\* motor_names after the None and str cases of read / write
SelectedNames(sel) ==
    IF sel.kind = "None" THEN motor_names
    ELSE IF sel.kind = "str" THEN <<sel.name>>
    ELSE sel.names

\* motor_models and motor_ids of the *_with_motor_ids methods
Participants ==
    { [motor_models |-> <<"sts3215">>, motor_ids |-> <<2>>, is_list |-> FALSE],
      [motor_models |-> <<"scs_series", "sts3215">>, motor_ids |-> <<1, 2>>, is_list |-> TRUE],
      [motor_models |-> <<"sts3215", "sts3215">>, motor_ids |-> <<2, 1>>, is_list |-> TRUE],
      [motor_models |-> <<"sts3215", "scs_series">>, motor_ids |-> <<2, 1>>, is_list |-> TRUE] }

\* values of write for n motors: a scalar, or an array with one value per motor
ValueInputs(n) ==
    { [scalar |-> TRUE, dtype |-> "int", values |-> [i \in 1..n |-> RatOfInt(50)]],
      [scalar |-> FALSE, dtype |-> "int", values |-> [i \in 1..n |-> RatOfInt(10 * i)]] }

\* calibration dictionaries given to set_calibration
Calibrations ==
    { [motor_names |-> <<"shoulder_pan", "gripper">>,
       calib_mode |-> <<"DEGREE", "LINEAR">>,
       drive_mode |-> <<0, 0>>,
       homing_offset |-> <<0, 0>>,
       start_pos |-> <<0, 0>>,
       end_pos |-> <<4095, 4095>>] }

\* set_calibration(calibration)
set_calibration(calib) ==
    /\ Called([name |-> "set_calibration"])
    /\ calibration' = calib
    /\ err' = NoError
    /\ NoTransaction
    /\ UNCHANGED <<motors, model_ctrl_table, port_handler, packet_handler, is_connected,
                   group_readers, group_writers, sdk>>

(***************************************************************************)
(* Transactions                                                            *)
(***************************************************************************)
\* the fields a transaction never assigns
TransactionFrame ==
    UNCHANGED <<motors, model_ctrl_table, port_handler, packet_handler, calibration,
                is_connected, next_handler, port_open, packet_timeout>>

\* the call raised e before it touched the register table
RaisedEarly(e) ==
    /\ err' = e
    /\ ret' = NoRet
    /\ calls' = 0
    /\ built' = 0
    /\ resolved' = FALSE
    /\ wire' = NoPacket
    /\ UNCHANGED <<group_readers, group_writers>>

\* the values taken in ascending id order instead of the order requested
ReadValues_in_id_order(group, motor_ids) ==
    [i \in DOMAIN motor_ids |->
        group.data[CHOOSE x \in Range(motor_ids) :
                      Cardinality({y \in Range(motor_ids) : y < x}) = i - 1]]

\* the values read returns for motor_ids out of the group it exchanged
ReadValues(group, motor_ids) ==
    [i \in DOMAIN motor_ids |-> group.data[motor_ids[i]]]

\* the exception reaches the caller, or the value does
Propagates(e, r) == err' = e /\ ret' = r

\* what are_motors_configured makes of read("ID"): a ConnectionError is printed
\* and False returned; any other exception passes through
Configured(e, r) ==
    IF e = "ConnectionError"
    THEN err' = NoError /\ ret' = [bool |-> FALSE]
    ELSE IF e = "DeviceNotConnectedError"
    THEN \* lerobot.common.errors decides whether this one is a ConnectionError
         \/ err' = e /\ ret' = NoRet
         \/ err' = NoError /\ ret' = [bool |-> FALSE]
    ELSE IF e = NoError
    THEN /\ err' = NoError
         /\ ret' = [bool |-> \A i \in DOMAIN motor_indices :
                                 r.array[i] = RatOfInt(motor_indices[i])]
    ELSE err' = e /\ ret' = NoRet

\* what the method caller makes of the exception e or of the value r that the
\* body of read ends with
Outcome(caller, e, r) ==
    IF caller = "are_motors_configured" THEN Configured(e, r) ELSE Propagates(e, r)

\* the body of read(data_name, motor_names), run for the method caller on a
\* transport that fails its first k attempts
read_body(data_name, sel, k, caller) ==
    LET names == SelectedNames(sel)
        motor_ids == [i \in DOMAIN names |-> MotorOf(names[i]).idx]
        models == [i \in DOMAIN names |-> MotorOf(names[i]).model]
        guard == assert_same_address(model_ctrl_table, models, data_name)
        reg == model_ctrl_table[models[Len(models)]][data_name]
        group_key == get_group_sync_key(data_name, names)
        init_group == data_name \notin DOMAIN group_readers
        readers == IF init_group
                   THEN Put(group_readers, group_key,
                            GroupSyncRead(port_handler, packet_handler, reg[1], reg[2], motor_ids))
                   ELSE group_readers
    IN
    /\ TransactionFrame
    /\ IF ~is_connected
       THEN /\ Outcome(caller, "DeviceNotConnectedError", NoRet)
            /\ calls' = 0 /\ built' = 0 /\ resolved' = FALSE /\ wire' = NoPacket
            /\ UNCHANGED <<group_readers, group_writers>>
       ELSE
       /\ resolved' = TRUE
       /\ UNCHANGED group_writers
       /\ IF guard # NoError
          THEN /\ Outcome(caller, guard, NoRet) /\ calls' = 0 /\ built' = 0
               /\ wire' = NoPacket
               /\ UNCHANGED group_readers
          ELSE IF init_group /\ port_handler \notin port_open
          THEN \* self.port_handler.ser is None on a port that is not open
               /\ Outcome(caller, "AttributeError", NoRet) /\ calls' = 0 /\ built' = 0
               /\ wire' = NoPacket
               /\ UNCHANGED group_readers
          ELSE IF group_key \notin DOMAIN readers
          THEN /\ Outcome(caller, "KeyError", NoRet) /\ calls' = 0 /\ built' = 0
               /\ wire' = NoPacket
               /\ UNCHANGED group_readers
          ELSE
          /\ CachedGroups(readers, group_writers) <= MaxGroups
          /\ built' = IF init_group THEN 1 ELSE 0
          /\ calls' = Attempts(NUM_READ_RETRY, k)
          /\ wire' = [kind |-> "sync_read", addr |-> readers[group_key].start_address,
                      bytes |-> readers[group_key].data_length,
                      params |-> readers[group_key].ids]
          /\ IF ~LoopSucceeds(NUM_READ_RETRY, k)
             THEN \E answered \in 0..(Len(motor_ids) - 1) :
                    /\ group_readers' =
                         Put(readers, group_key, Received(readers[group_key], answered))
                    /\ Outcome(caller, "ConnectionError", NoRet)
             ELSE LET group == Received(readers[group_key], Len(readers[group_key].ids))
                      values == ReadValues(group, motor_ids)
                      cal == IF data_name \in CALIBRATION_REQUIRED
                                /\ calibration # NoCalibration
                             THEN apply_calibration(calibration, values, names)
                             ELSE [err |-> NoError,
                                   values |-> [i \in DOMAIN values |-> RatOfInt(values[i])]]
                  IN  /\ group_readers' = Put(readers, group_key, group)
                      /\ Outcome(caller, cal.err,
                                 IF cal.err = NoError THEN [array |-> cal.values] ELSE NoRet)

\* read(data_name, motor_names) on a transport that fails its first k attempts
read(data_name, sel, k) ==
    LET names == SelectedNames(sel)
        models == [i \in DOMAIN names |-> MotorOf(names[i]).model]
    IN
    /\ Called([name |-> "read", data_name |-> data_name, selector |-> sel.kind,
               motor_names |-> names, motor_models |-> models, num_invalid_try |-> k])
    /\ read_body(data_name, sel, k, "read")

\* read_with_motor_ids(motor_models, motor_ids, data_name, num_retry)
read_with_motor_ids(p, data_name, num_retry, k) ==
    LET guard == assert_same_address(model_ctrl_table, motor_models, data_name)
        reg == model_ctrl_table[p.motor_models[1]][data_name]
        group == GroupSyncRead(port_handler, packet_handler, reg[1], reg[2], p.motor_ids)
        done == Received(group, Len(p.motor_ids))
        values == ReadValues(done, p.motor_ids)
    IN
    /\ Called([name |-> "read_with_motor_ids", data_name |-> data_name,
              motor_models |-> p.motor_models, motor_ids |-> p.motor_ids,
              num_retry |-> num_retry, num_invalid_try |-> k])
    /\ TransactionFrame
    /\ UNCHANGED <<group_readers, group_writers>>
    /\ resolved' = TRUE
    /\ IF guard # NoError
       THEN /\ err' = guard /\ ret' = NoRet /\ calls' = 0 /\ built' = 0 /\ wire' = NoPacket
       ELSE IF data_name \notin DOMAIN model_ctrl_table[p.motor_models[1]]
       THEN /\ err' = "KeyError" /\ ret' = NoRet /\ calls' = 0 /\ built' = 0 /\ wire' = NoPacket
       ELSE
       /\ built' = 1
       /\ IF num_retry = 0
          THEN \* comm is read before it was ever assigned
               /\ err' = "UnboundLocalError" /\ ret' = NoRet /\ calls' = 0 /\ wire' = NoPacket
          ELSE IF port_handler \notin port_open
          THEN \* the SDK dereferences a handler that is None or has no serial port
               /\ err' = "AttributeError" /\ ret' = NoRet /\ calls' = 1 /\ wire' = NoPacket
          ELSE
          /\ calls' = Attempts(num_retry, k)
          /\ wire' = [kind |-> "sync_read", addr |-> reg[1], bytes |-> reg[2],
                      params |-> p.motor_ids]
          /\ IF ~LoopSucceeds(num_retry, k)
             THEN /\ err' = "ConnectionError" /\ ret' = NoRet
             ELSE /\ err' = NoError
                  /\ ret' = IF p.is_list THEN [list |-> values] ELSE [scalar |-> values[1]]

\* are_motors_configured() on a transport that fails its first k attempts
are_motors_configured(k) ==
    /\ Called([name |-> "are_motors_configured", num_invalid_try |-> k])
    /\ read_body("ID", [kind |-> "None"], k, "are_motors_configured")

\* possible_ids of find_motor_indices: range(MAX_ID_RANGE) when None
PossibleIds(possible_ids) ==
    IF possible_ids.is_none THEN [i \in 1..MAX_ID_RANGE |-> i - 1] ELSE possible_ids.ids

\* the scan that goes on to the next id when a device reports another id
ScanLoop_skips_damaged(ids, answering, damaged_ids, addr) ==
    LET stored(i) == Memory(ids[i], addr) + (IF ids[i] \in damaged_ids THEN 1 ELSE 0)
    IN  [raises |-> FALSE,
         scanned |-> Len(ids),
         present |-> {i \in DOMAIN ids : ids[i] \in answering},
         indices |-> SelectSeq(ids, LAMBDA x : x \in answering \ damaged_ids)]

\* the loop of find_motor_indices over ids, on a line where the devices with
\* an id in answering answer at once, no other id ever answers, and the
\* memory of the devices in damaged_ids holds another id than theirs: whether
\* the sanity check raises, the ids asked up to there, the places of those
\* that answered, and the list built
ScanLoop(ids, answering, damaged_ids, addr) ==
    LET answered(i) == ids[i] \in answering
        stored(i) == Memory(ids[i], addr) + (IF ids[i] \in damaged_ids THEN 1 ELSE 0)
        \* the first id whose memory holds another id than the one addressed
        damaged == {i \in DOMAIN ids : answered(i) /\ stored(i) # ids[i]}
        first_damaged == CHOOSE i \in damaged : \A j \in damaged : i <= j
        scanned == IF damaged = {} THEN Len(ids) ELSE first_damaged
    IN  [raises |-> damaged # {},
         scanned |-> scanned,
         present |-> {i \in 1..scanned : answered(i)},
         \* every ConnectionError was skipped with continue
         indices |-> SelectSeq(SubSeq(ids, 1, scanned), LAMBDA x : x \in answering)]

\* find_motor_indices(possible_ids, num_retry) on such a line
find_motor_indices(possible_ids, num_retry, answering, damaged_ids) ==
    LET ids == PossibleIds(possible_ids)
        guard == assert_same_address(model_ctrl_table, motor_models, "ID")
        reg == model_ctrl_table[motor_models[1]]["ID"]
        loop == ScanLoop(ids, answering, damaged_ids, reg[1])
        scanned == loop.scanned
        present == loop.present
    IN
    /\ Called([name |-> "find_motor_indices", possible_ids |-> possible_ids,
               num_retry |-> num_retry, answering |-> answering,
               damaged_ids |-> damaged_ids])
    /\ TransactionFrame
    /\ UNCHANGED <<group_readers, group_writers>>
    /\ IF ids = <<>>
       THEN /\ err' = NoError /\ ret' = [list |-> <<>>]
            /\ resolved' = FALSE /\ calls' = 0 /\ built' = 0 /\ wire' = NoPacket
       ELSE
       /\ resolved' = TRUE
       /\ IF guard # NoError
          THEN /\ err' = guard /\ ret' = NoRet /\ calls' = 0 /\ built' = 0 /\ wire' = NoPacket
          ELSE IF "ID" \notin DOMAIN model_ctrl_table[motor_models[1]]
          THEN /\ err' = "KeyError" /\ ret' = NoRet /\ calls' = 0 /\ built' = 0
               /\ wire' = NoPacket
          ELSE IF num_retry = 0
          THEN \* comm is read before it was ever assigned
               /\ err' = "UnboundLocalError" /\ ret' = NoRet /\ calls' = 0 /\ built' = 1
               /\ wire' = NoPacket
          ELSE IF port_handler \notin port_open
          THEN \* the SDK dereferences a handler that is None or has no serial port
               /\ err' = "AttributeError" /\ ret' = NoRet /\ calls' = 1 /\ built' = 1
               /\ wire' = NoPacket
          ELSE
          /\ built' = scanned
          /\ calls' = Cardinality(present) + num_retry * (scanned - Cardinality(present))
          /\ wire' = [kind |-> "sync_read", addr |-> reg[1], bytes |-> reg[2],
                      params |-> <<ids[scanned]>>]
          /\ IF loop.raises
             THEN err' = "OSError" /\ ret' = NoRet
             ELSE /\ err' = NoError
                  /\ ret' = [list |-> loop.indices]

\* PortHandler.getBaudRate() of the handler h: the rate of the module until
\* another one was set on the port
getBaudRate(h) == IF h \in DOMAIN baudrate THEN baudrate[h] ELSE BAUDRATE

\* set_bus_baudrate(baudrate) that raises nothing on a read-back mismatch
set_bus_baudrate_unchecked(b, readback) ==
    /\ op' = [name |-> "set_bus_baudrate", baudrate |-> b, readback |-> readback]
    /\ before' = Snapshot
    /\ UNCHANGED <<bus, sdk, robot, fleet, joystick>>
    /\ calls' = 0 /\ built' = 0 /\ resolved' = FALSE /\ ret' = NoRet
    /\ IF port_handler = None
       THEN /\ err' = "AttributeError"
            /\ wire' = NoPacket
            /\ UNCHANGED baudrate
       ELSE /\ wire' = [kind |-> "setBaudRate", rate |-> b]
            /\ baudrate' = [h \in DOMAIN baudrate \cup {port_handler} |->
                               IF h = port_handler THEN readback ELSE baudrate[h]]
            /\ err' = NoError

\* set_bus_baudrate(baudrate); readback is the rate the port reports after a
\* setBaudRate(baudrate): the rate asked for when the adapter took it
set_bus_baudrate(b, readback) ==
    /\ op' = [name |-> "set_bus_baudrate", baudrate |-> b, readback |-> readback]
    /\ before' = Snapshot
    /\ UNCHANGED <<bus, sdk, robot, fleet, joystick>>
    /\ calls' = 0 /\ built' = 0 /\ resolved' = FALSE /\ ret' = NoRet
    /\ IF port_handler = None
       THEN \* None has no getBaudRate
            /\ err' = "AttributeError"
            /\ wire' = NoPacket
            /\ UNCHANGED baudrate
       ELSE IF getBaudRate(port_handler) = b
       THEN /\ err' = NoError
            /\ wire' = NoPacket
            /\ UNCHANGED baudrate
       ELSE /\ wire' = [kind |-> "setBaudRate", rate |-> b]
            /\ baudrate' = [h \in DOMAIN baudrate \cup {port_handler} |->
                               IF h = port_handler THEN readback ELSE baudrate[h]]
            /\ err' = IF readback # b THEN "OSError" ELSE NoError

\* the transmissions write makes of its group packet: comm = txPacket()
WriteAttempts(k) == 1

\* whether comm is COMM_SUCCESS after them
WriteSucceeds(k) == k = 0

\* write(data_name, values, motor_names) on a transport that fails its first k attempts
write(data_name, v, sel, k) ==
    LET names == SelectedNames(sel)
        motor_ids == [i \in DOMAIN names |-> MotorOf(names[i]).idx]
        models == [i \in DOMAIN names |-> MotorOf(names[i]).model]
        \* a scalar is repeated as int(values); an array keeps its dtype
        dtype == IF v.scalar THEN "int" ELSE v.dtype
        array == IF v.scalar
                 THEN [i \in DOMAIN names |-> RatOfInt(TruncToZero(v.values[1]))]
                 ELSE v.values
        reverts == data_name \in CALIBRATION_REQUIRED /\ calibration # NoCalibration
        rev == IF reverts
               THEN revert_calibration(calibration, dtype, array, names)
               ELSE [err |-> NoError, values |-> <<>>]
        \* values.tolist(): integers after a revert or from an integer array
        is_int == reverts \/ dtype = "int"
        values == IF reverts THEN rev.values
                  ELSE [i \in DOMAIN array |-> TruncToZero(array[i])]
        guard == assert_same_address(model_ctrl_table, models, data_name)
        reg == model_ctrl_table[models[Len(models)]][data_name]
        group_key == get_group_sync_key(data_name, names)
        init_group == data_name \notin DOMAIN group_readers
        datas == [i \in DOMAIN motor_ids |-> convert_to_bytes(values[i], reg[2])]
        codec == IF ~is_int THEN "TypeError"
                 ELSE FirstError([i \in DOMAIN motor_ids |-> datas[i].err])
        group == GroupSyncWrite(port_handler, packet_handler, reg[1], reg[2],
                                motor_ids, [i \in DOMAIN motor_ids |-> datas[i].data])
        empty == GroupSyncWrite(port_handler, packet_handler, reg[1], reg[2], <<>>, <<>>)
    IN
    /\ Called([name |-> "write", data_name |-> data_name, selector |-> sel.kind,
               motor_names |-> names, motor_models |-> models, num_invalid_try |-> k,
               values |-> v])
    /\ TransactionFrame
    /\ IF ~is_connected THEN RaisedEarly("DeviceNotConnectedError")
       ELSE IF rev.err # NoError THEN RaisedEarly(rev.err)
       ELSE
       /\ resolved' = TRUE
       /\ ret' = NoRet
       /\ UNCHANGED group_readers
       /\ IF guard # NoError
          THEN /\ err' = guard /\ calls' = 0 /\ built' = 0
               /\ wire' = NoPacket
               /\ UNCHANGED group_writers
          ELSE IF ~init_group /\ group_key \notin DOMAIN group_writers
          THEN \* changeParam on a writer that was never made
               /\ err' = (IF codec # NoError THEN codec ELSE "KeyError")
               /\ calls' = 0 /\ built' = 0
               /\ wire' = NoPacket
               /\ UNCHANGED group_writers
          ELSE
          /\ CachedGroups(group_readers, Put(group_writers, group_key, group)) <= MaxGroups
          /\ built' = IF init_group THEN 1 ELSE 0
          /\ IF codec # NoError
             THEN \* the first value already fails: the writer holds no parameter
                  /\ group_writers' =
                       IF init_group THEN Put(group_writers, group_key, empty)
                       ELSE group_writers
                  /\ err' = codec /\ calls' = 0 /\ wire' = NoPacket
             ELSE
             /\ group_writers' = Put(group_writers, group_key, group)
             /\ IF port_handler \notin port_open
                THEN /\ err' = "AttributeError" /\ calls' = 1 /\ wire' = NoPacket
                ELSE /\ calls' = WriteAttempts(k)
                     /\ wire' = [kind |-> "sync_write", addr |-> reg[1], bytes |-> reg[2],
                                 params |-> group.params]
                     /\ err' = IF WriteSucceeds(k) THEN NoError ELSE "ConnectionError"

\* write_with_motor_ids(motor_models, motor_ids, data_name, values, num_retry)
write_with_motor_ids(p, data_name, v, num_retry, k) ==
    LET guard == assert_same_address(model_ctrl_table, p.motor_models, data_name)
        reg == model_ctrl_table[p.motor_models[1]][data_name]
        values == [i \in DOMAIN p.motor_ids |-> TruncToZero(v.values[i])]
        datas == [i \in DOMAIN p.motor_ids |-> convert_to_bytes(values[i], reg[2])]
        codec == FirstError([i \in DOMAIN p.motor_ids |-> datas[i].err])
        group == GroupSyncWrite(port_handler, packet_handler, reg[1], reg[2],
                                p.motor_ids, [i \in DOMAIN p.motor_ids |-> datas[i].data])
    IN
    /\ Called([name |-> "write_with_motor_ids", data_name |-> data_name,
               motor_models |-> p.motor_models, motor_ids |-> p.motor_ids,
               num_retry |-> num_retry, num_invalid_try |-> k])
    /\ TransactionFrame
    /\ UNCHANGED <<group_readers, group_writers>>
    /\ resolved' = TRUE
    /\ ret' = NoRet
    /\ IF guard # NoError
       THEN /\ err' = guard /\ calls' = 0 /\ built' = 0 /\ wire' = NoPacket
       ELSE
       /\ built' = 1
       /\ IF codec # NoError
          THEN /\ err' = codec /\ calls' = 0 /\ wire' = NoPacket
          ELSE IF num_retry = 0
          THEN /\ err' = "UnboundLocalError" /\ calls' = 0 /\ wire' = NoPacket
          ELSE IF port_handler \notin port_open
          THEN /\ err' = "AttributeError" /\ calls' = 1 /\ wire' = NoPacket
          ELSE /\ calls' = Attempts(num_retry, k)
               /\ wire' = [kind |-> "sync_write", addr |-> reg[1], bytes |-> reg[2],
                           params |-> group.params]
               /\ err' = IF LoopSucceeds(num_retry, k) THEN NoError ELSE "ConnectionError"

(***************************************************************************)
(* Specifications                                                          *)
(***************************************************************************)
IntList(p) ==
    [scalar |-> FALSE, dtype |-> "int",
     values |-> [i \in DOMAIN p.motor_ids |-> RatOfInt(10 * i)]]

Scalar50 == [scalar |-> TRUE, dtype |-> "int", values |-> <<RatOfInt(50)>>]

AllMotors == [kind |-> "None"]

OnePair == [motor_models |-> <<"scs_series", "sts3215">>, motor_ids |-> <<1, 2>>,
            is_list |-> TRUE]

\* Spec: the whole bus and the robot's connect, on the shipped control table
Next ==
    \/ \E open_ok \in BOOLEAN : connect(open_ok)
    \/ \E open_ok \in BOOLEAN : reconnect(open_ok)
    \/ disconnect
    \/ \E open_ok \in BOOLEAN, failed \in RobotSteps \cup {"none"}, calib \in Calibrations :
          SO100Follower_connect(open_ok, failed, calib)
    \/ \E calib \in Calibrations : set_calibration(calib)
    \/ \E k \in {0, NUM_READ_RETRY} : read("Present_Position", AllMotors, k)
    \/ \E k \in {0, 1} : write("Goal_Position", Scalar50, AllMotors, k)
    \/ \E k \in {0, 1} : read_with_motor_ids(OnePair, "Present_Position", 1, k)
    \/ \E k \in {0, 1} :
          write_with_motor_ids(OnePair, "Goal_Position", IntList(OnePair), 1, k)

Spec == Init /\ [][Next]_vars

\* SpecRetry: one register and one motor set, every retry budget against
\* every number of failing attempts
NextRetry ==
    \/ \E open_ok \in BOOLEAN : connect(open_ok)
    \/ disconnect
    \/ \E k \in InvalidTries : read("Present_Position", AllMotors, k)
    \/ \E k \in InvalidTries : write("Goal_Position", Scalar50, AllMotors, k)
    \/ \E num_retry \in NumRetries, k \in InvalidTries :
          read_with_motor_ids(OnePair, "Present_Position", num_retry, k)
    \/ \E num_retry \in NumRetries, k \in InvalidTries :
          write_with_motor_ids(OnePair, "Goal_Position", IntList(OnePair), num_retry, k)

SpecRetry == Init /\ [][NextRetry]_vars

\* SpecRead: reads of a calibrated and of a raw register by every selector,
\* with or without a calibration, on a transport that answers at once or never
NextRead ==
    \/ \E open_ok \in BOOLEAN : connect(open_ok)
    \/ disconnect
    \/ \E calib \in Calibrations : set_calibration(calib)
    \/ \E data_name \in {"Present_Position", "ID"}, sel \in Selectors,
          k \in {0, NUM_READ_RETRY} : read(data_name, sel, k)

SpecRead == Init /\ [][NextRead]_vars

\* the numbers a caller writes as a position: integers, and floats with and
\* without a fraction
IntNumbers == {0, 1, 50, 99, 100}

FloatNumbers == {RatOfInt(50), Rat(1, 2), Rat(507, 10), Rat(999, 10)}

\* values of write for n motors in every form numpy accepts: a Python int or
\* float, an integer array, a float array
WriteInputs(n) ==
    { [scalar |-> TRUE, dtype |-> "int", values |-> <<RatOfInt(x)>>] : x \in IntNumbers }
    \cup { [scalar |-> TRUE, dtype |-> "float", values |-> <<x>>] : x \in FloatNumbers }
    \cup { [scalar |-> FALSE, dtype |-> "int", values |-> [i \in 1..n |-> RatOfInt(x)]] :
               x \in IntNumbers }
    \cup { [scalar |-> FALSE, dtype |-> "float", values |-> [i \in 1..n |-> x]] :
               x \in FloatNumbers }

\* SpecWrite: goal positions of every numeric form written to the gripper
\* alone and to all motors, with and without a calibration
NextWrite ==
    \/ connect(TRUE)
    \/ disconnect
    \/ \E calib \in Calibrations : set_calibration(calib)
    \/ \E sel \in {AllMotors, [kind |-> "str", name |-> "gripper"]} :
          \E v \in WriteInputs(Len(SelectedNames(sel))) : write("Goal_Position", v, sel, 0)

SpecWrite == Init /\ [][NextWrite]_vars

\* apply_calibration(values, motor_names) called on the bus: values are raw ticks
call_apply_calibration(values, names) ==
    LET res == apply_calibration(calibration, values, names)
    IN
    /\ Called([name |-> "apply_calibration", values |-> values, motor_names |-> names])
    /\ UNCHANGED <<bus, sdk>>
    /\ calls' = 0 /\ built' = 0 /\ resolved' = FALSE /\ wire' = NoPacket
    /\ IF calibration = NoCalibration
       THEN \* None is not subscriptable
            err' = "TypeError" /\ ret' = NoRet
       ELSE /\ err' = res.err
            /\ ret' = IF res.err = NoError THEN [array |-> res.values] ELSE NoRet

\* revert_calibration(values, motor_names) called on the bus; applied_from is
\* the raw ticks whose apply_calibration result is passed as values, or <<>>
call_revert_calibration(v, names, applied_from) ==
    LET res == revert_calibration(calibration, v.dtype, v.values, names)
    IN
    /\ Called([name |-> "revert_calibration", values |-> v, motor_names |-> names,
               applied_from |-> applied_from])
    /\ UNCHANGED <<bus, sdk>>
    /\ calls' = 0 /\ built' = 0 /\ resolved' = FALSE /\ wire' = NoPacket
    /\ IF calibration = NoCalibration
       THEN err' = "TypeError" /\ ret' = NoRet
       ELSE /\ err' = res.err
            /\ ret' = IF res.err = NoError THEN [ticks |-> res.values] ELSE NoRet

\* one calibration dictionary over the two motors
Calibration(names, modes, drive_modes, starts, ends) ==
    [motor_names |-> names, calib_mode |-> modes, drive_mode |-> drive_modes,
     homing_offset |-> <<0, 0>>, start_pos |-> starts, end_pos |-> ends]

\* calibrations of the two motors: both drive modes, the entries in either
\* order, both motors in degrees, and ranges that are empty or inverted
CalibrationsAll ==
    { Calibration(<<"shoulder_pan", "gripper">>, <<"DEGREE", "LINEAR">>, <<0, 0>>,
                  <<0, 1000>>, <<4095, 2000>>),
      Calibration(<<"shoulder_pan", "gripper">>, <<"DEGREE", "LINEAR">>, <<1, 0>>,
                  <<0, 2000>>, <<4095, 12000>>),
      Calibration(<<"gripper", "shoulder_pan">>, <<"LINEAR", "DEGREE">>, <<0, 1>>,
                  <<1000, 0>>, <<2000, 4095>>),
      Calibration(<<"shoulder_pan", "gripper">>, <<"DEGREE", "DEGREE">>, <<0, 1>>,
                  <<0, 0>>, <<4095, 4095>>),
      Calibration(<<"shoulder_pan", "gripper">>, <<"DEGREE", "LINEAR">>, <<0, 0>>,
                  <<0, 1000>>, <<4095, 1000>>),
      Calibration(<<"shoulder_pan", "gripper">>, <<"DEGREE", "LINEAR">>, <<0, 0>>,
                  <<0, 2000>>, <<4095, 1000>>) }

\* raw ticks across a turn: the ends, the middle, and one every TickStride
SampleTicks ==
    {0, 1, 2, 2046, 2047, 2048, 2049, 2050, 4093, 4094, 4095}
    \cup {t \in 0..(MODEL_RESOLUTION("sts3215") - 1) : t % TickStride = 0}

\* raw values around the ends of the linear ranges and of their tolerance band
LinearTicks ==
    {899, 900, 901, 999, 1000, 1500, 2000, 2099, 2100, 2101, 13000, 13001}

\* angles and percentages a caller asks for
FreeNumbers ==
    {RatOfInt(0), RatOfInt(50), RatOfInt(90), RatOfInt(-90), Rat(1, 20), Rat(-1, 20),
     Rat(135, 1024), Rat(-135, 1024), Rat(1799, 10)}

\* the motor lists of a call
NameLists ==
    {<<"shoulder_pan">>, <<"gripper">>, <<"shoulder_pan", "gripper">>,
     <<"gripper", "shoulder_pan">>}

\* SpecCalib: the two conversions called on the bus under every calibration
NextCalib ==
    \/ \E calib \in CalibrationsAll : set_calibration(calib)
    \/ \E names \in NameLists, t \in SampleTicks \cup LinearTicks :
          call_apply_calibration([i \in DOMAIN names |-> t], names)
    \/ \E names \in NameLists, x \in FreeNumbers, dtype \in {"int", "float"} :
          /\ dtype = "int" => x[2] = 1
          /\ call_revert_calibration(
                [dtype |-> dtype, values |-> [i \in DOMAIN names |-> x]], names, <<>>)
    \/ \E names \in NameLists, t \in SampleTicks \cup LinearTicks :
          LET ticks == [i \in DOMAIN names |-> t]
              applied == apply_calibration(calibration, ticks, names)
          IN  /\ calibration # NoCalibration
              /\ applied.err = NoError
              \* the cast of nan to int32 depends on the platform: finite values only
              /\ \A i \in DOMAIN names : IsFinite(applied.values[i])
              /\ call_revert_calibration(
                    [dtype |-> "float", values |-> applied.values], names, ticks)

SpecCalib == Init /\ [][NextCalib]_vars

\* SpecGuard: every motor configuration on every control table, each
\* transaction on a transport that does not fail
InitGuard == \E m \in MotorConfigs, t \in CtrlTables : InitWith(m, t)

NextGuard ==
    \/ connect(TRUE)
    \/ \E data_name \in DataNames \ {"Goal_Position"}, sel \in Selectors :
          read(data_name, sel, 0)
    \/ \E data_name \in DataNames \ {"Present_Position"}, sel \in Selectors :
          \E v \in ValueInputs(Len(SelectedNames(sel))) : write(data_name, v, sel, 0)
    \/ \E p \in Participants, data_name \in DataNames \ {"Goal_Position"} :
          read_with_motor_ids(p, data_name, 1, 0)
    \/ \E p \in Participants, data_name \in DataNames \ {"Present_Position"} :
          write_with_motor_ids(p, data_name, IntList(p), 1, 0)

SpecGuard == InitGuard /\ [][NextGuard]_vars

\* id lists a scan is given: None, the ids of the bus, and ids nobody has
ScanLists ==
    {[is_none |-> TRUE, ids |-> <<>>]}
    \cup {[is_none |-> FALSE, ids |-> ids] : ids \in {<<>>, <<1, 2>>, <<3, 2, 1>>}}

\* the sets of devices that answer on the line
AnsweringSets == {{}, {2}, {1, 2}, {1, 2, 3}}

\* the baud rates asked for and reported
BaudRates == {BAUDRATE, 500000, 115200}

\* SpecBaud: the baud rate of the port across sessions
NextBaud ==
    \/ \E open_ok \in BOOLEAN : connect(open_ok)
    \/ \E open_ok \in BOOLEAN : reconnect(open_ok)
    \/ disconnect
    \/ \E b \in BaudRates, readback \in BaudRates : set_bus_baudrate(b, readback)

SpecBaud == Init /\ [][NextBaud]_vars

\* the sets of devices whose memory holds another id than the one they answer to
DamagedSets == {{}, {2}}

\* SpecScan: the two probes of the bus next to the read they are built on
NextScan ==
    \/ \E open_ok \in BOOLEAN : connect(open_ok)
    \/ disconnect
    \/ \E k \in {0, NUM_READ_RETRY} : read("ID", AllMotors, k)
    \/ \E k \in InvalidTries : are_motors_configured(k)
    \/ \E possible_ids \in ScanLists, num_retry \in NumRetries, answering \in AnsweringSets,
          damaged_ids \in DamagedSets :
          find_motor_indices(possible_ids, num_retry, answering, damaged_ids)

SpecScan == Init /\ [][NextScan]_vars

(***************************************************************************)
(* Calibration procedures of the bus                                       *)
(***************************************************************************)
\* 2^n
RECURSIVE Pow2(_)
Pow2(n) == IF n = 0 THEN 1 ELSE 2 * Pow2(n - 1)

\* encode_sign_magnitude(value, sign_bit_index): [err, value]; the sign goes
\* to bit sign_bit_index, the magnitude below it
encode_sign_magnitude(value, sign_bit_index) ==
    IF Abs(value) > Pow2(sign_bit_index) - 1
    THEN [err |-> "ValueError", value |-> 0]
    ELSE [err |-> NoError,
          value |-> (IF value < 0 THEN Pow2(sign_bit_index) ELSE 0) + Abs(value)]

\* the bit that holds the sign of Homing_Offset
HomingSignBit == 11

\* the calls a procedure makes on the bus
BusWrite(data_name, name, value) ==
    [call |-> "write", data_name |-> data_name, motor |-> name, value |-> value]

BusRead(data_name, names) ==
    [call |-> "sync_read", data_name |-> data_name, motors |-> names]

BusCall(name) == [call |-> name]

\* the midpoint of the tick range of the motor name
HalfTurn(name) == (MODEL_RESOLUTION(MotorOf(name).model) - 1) \div 2

\* the writes of reset_calibration for the motors names
RECURSIVE ResetWrites(_)
ResetWrites(names) ==
    IF names = <<>> THEN <<>>
    ELSE << BusWrite("Homing_Offset", names[1], 0),
            BusWrite("Min_Position_Limit", names[1], 0),
            BusWrite("Max_Position_Limit", names[1],
                     MODEL_RESOLUTION(MotorOf(names[1]).model) - 1) >>
         \o ResetWrites(Tail(names))

\* reset_calibration(motors): the calls it makes
reset_calibration(names) == <<BusCall("reset_calibration")>> \o ResetWrites(names)

\* set_half_turn_homings keeping the offsets the motors had
set_half_turn_homings_no_reset(names, positions) ==
    LET offsets == [n \in Range(names) |-> positions[n] - HalfTurn(n)]
        encoded == [i \in DOMAIN names |->
                      encode_sign_magnitude(offsets[names[i]], HomingSignBit)]
        bad == {i \in DOMAIN names : encoded[i].err # NoError}
        written == IF bad = {} THEN Len(names)
                   ELSE (CHOOSE i \in bad : \A j \in bad : i <= j) - 1
    IN  [err |-> FirstError([i \in DOMAIN names |-> encoded[i].err]),
         homing_offsets |-> offsets,
         steps |-> <<BusRead("Present_Position", names)>>
                   \o [i \in 1..written |->
                         BusWrite("Homing_Offset", names[i], encoded[i].value)]]

\* set_half_turn_homings taking resolution / 2 for the midpoint
set_half_turn_homings_2048(names, positions) ==
    LET offsets == [n \in Range(names) |->
                      positions[n] - (MODEL_RESOLUTION(MotorOf(n).model) \div 2)]
        encoded == [i \in DOMAIN names |->
                      encode_sign_magnitude(offsets[names[i]], HomingSignBit)]
        bad == {i \in DOMAIN names : encoded[i].err # NoError}
        written == IF bad = {} THEN Len(names)
                   ELSE (CHOOSE i \in bad : \A j \in bad : i <= j) - 1
    IN  [err |-> FirstError([i \in DOMAIN names |-> encoded[i].err]),
         homing_offsets |-> offsets,
         steps |-> reset_calibration(names)
                   \o <<BusRead("Present_Position", names)>>
                   \o [i \in 1..written |->
                         BusWrite("Homing_Offset", names[i], encoded[i].value)]]

\* set_half_turn_homings(motors) with the motors at positions:
\* [err, homing_offsets, steps]. The calibration is reset, the positions are
\* read, and each offset is written until one does not fit the encoding
set_half_turn_homings(names, positions) ==
    LET offsets == [n \in Range(names) |-> positions[n] - HalfTurn(n)]
        encoded == [i \in DOMAIN names |->
                      encode_sign_magnitude(offsets[names[i]], HomingSignBit)]
        bad == {i \in DOMAIN names : encoded[i].err # NoError}
        written == IF bad = {} THEN Len(names)
                   ELSE (CHOOSE i \in bad : \A j \in bad : i <= j) - 1
    IN  [err |-> FirstError([i \in DOMAIN names |-> encoded[i].err]),
         homing_offsets |-> offsets,
         steps |-> reset_calibration(names)
                   \o <<BusRead("Present_Position", names)>>
                   \o [i \in 1..written |->
                         BusWrite("Homing_Offset", names[i], encoded[i].value)]]

\* the samples record_ranges_of_motion reads off the stream when enter_pressed()
\* answers presses: one to start with, then one before each answer up to the
\* first True
SamplesRead(presses) ==
    1 + (CHOOSE i \in DOMAIN presses : presses[i] /\ \A j \in 1..(i - 1) : ~presses[j])

SetMin(S) == CHOOSE x \in S : \A y \in S : x <= y

SetMax(S) == CHOOSE x \in S : \A y \in S : x >= y

\* record_ranges_of_motion that starts its minima and maxima at the first
\* sample of the loop, not at the start positions
record_ranges_of_motion_skip_start(names, stream, presses) ==
    LET reads == SamplesRead(presses)
    IN  [mins |-> [n \in Range(names) |-> SetMin({stream[i][n] : i \in 2..reads})],
         maxes |-> [n \in Range(names) |-> SetMax({stream[i][n] : i \in 2..reads})],
         steps |-> [i \in 1..reads |-> BusRead("Present_Position", names)]]

\* record_ranges_of_motion(motors) on motors that are at stream[i] at the
\* i-th read: [mins, maxes, steps]
record_ranges_of_motion(names, stream, presses) ==
    LET reads == SamplesRead(presses)
    IN  [mins |-> [n \in Range(names) |-> SetMin({stream[i][n] : i \in 1..reads})],
         maxes |-> [n \in Range(names) |-> SetMax({stream[i][n] : i \in 1..reads})],
         steps |-> [i \in 1..reads |-> BusRead("Present_Position", names)]]

\* OperatingMode.POSITION.value
OperatingMode_POSITION == 0

\* a procedure of the bus called on a bus that is not connected raises at its
\* first call on the port
call_set_half_turn_homings(positions) ==
    LET res == set_half_turn_homings(motor_names, positions)
    IN  /\ CalledProcedure([name |-> "set_half_turn_homings", positions |-> positions])
        /\ calls' = 0 /\ built' = 0 /\ resolved' = FALSE /\ wire' = NoPacket
        /\ UNCHANGED <<bus, sdk, robot_calibration, calibration_file, robot_class>>
        /\ IF ~is_connected
           THEN /\ err' = "DeviceNotConnectedError"
                /\ ret' = NoRet
                /\ steps' = <<>>
           ELSE /\ err' = res.err
                /\ ret' = IF res.err = NoError
                          THEN [homing_offsets |-> res.homing_offsets] ELSE NoRet
                /\ steps' = res.steps

call_record_ranges_of_motion(names, stream, presses) ==
    LET res == record_ranges_of_motion(names, stream, presses)
    IN  /\ CalledProcedure([name |-> "record_ranges_of_motion", motors |-> names,
                            stream |-> stream, presses |-> presses])
        /\ calls' = 0 /\ built' = 0 /\ resolved' = FALSE /\ wire' = NoPacket
        /\ UNCHANGED <<bus, sdk, robot_calibration, calibration_file, robot_class>>
        /\ IF ~is_connected
           THEN /\ err' = "DeviceNotConnectedError"
                /\ ret' = NoRet
                /\ steps' = <<>>
           ELSE /\ err' = NoError
                /\ ret' = [mins |-> res.mins, maxes |-> res.maxes]
                /\ steps' = res.steps

(***************************************************************************)
(* calibrate() of the robots                                               *)
(***************************************************************************)
\* the steps of SO100Follower.calibrate() that call the bus or the disk, in
\* the order of the code
CalibrateSteps ==
    << "disable_torque", "Operating_Mode", "set_half_turn_homings",
       "record_ranges_of_motion", "write_calibration", "_save_calibration" >>

\* what is left of a file whose writing failed after it was opened
TruncatedFile == [truncated |-> TRUE]

\* the place of the step in the sequence of steps, one past the end for "none"
StepIndex(the_steps, step) ==
    IF \E i \in DOMAIN the_steps : the_steps[i] = step
    THEN CHOOSE i \in DOMAIN the_steps : the_steps[i] = step
    ELSE Len(the_steps) + 1

full_turn_motor == "wrist_roll"

\* the ranges and the entries with the full-turn motor recorded like the others
RangesAndEntries_records_all(names, homing_offsets, stream, presses) ==
    LET unknown_range_motors == names
        ranges == record_ranges_of_motion(unknown_range_motors, stream, presses)
        range_mins == [n \in Range(unknown_range_motors) \cup {full_turn_motor} |->
                         ranges.mins[n]]
        range_maxes == [n \in Range(unknown_range_motors) \cup {full_turn_motor} |->
                          ranges.maxes[n]]
    IN  [steps |-> ranges.steps,
         entries |-> [n \in Range(names) |->
                        [id |-> MotorOf(n).idx,
                         drive_mode |-> 0,
                         homing_offset |-> homing_offsets[n],
                         range_min |-> range_mins[n],
                         range_max |-> range_maxes[n]]]]

\* the part of SO100Follower.calibrate() that records the ranges of motion
\* and assembles the entries of the calibration: [steps, entries]
RangesAndEntries(names, homing_offsets, stream, presses) ==
    LET unknown_range_motors == SelectSeq(names, LAMBDA n : n # full_turn_motor)
        ranges == record_ranges_of_motion(unknown_range_motors, stream, presses)
        range_mins == [n \in Range(unknown_range_motors) \cup {full_turn_motor} |->
                         IF n = full_turn_motor THEN 0 ELSE ranges.mins[n]]
        range_maxes == [n \in Range(unknown_range_motors) \cup {full_turn_motor} |->
                          IF n = full_turn_motor THEN 4095 ELSE ranges.maxes[n]]
    IN  [steps |-> ranges.steps,
         entries |-> [n \in Range(names) |->
                        [id |-> MotorOf(n).idx,
                         drive_mode |-> 0,
                         homing_offset |-> homing_offsets[n],
                         range_min |-> range_mins[n],
                         range_max |-> range_maxes[n]]]]

\* calibrate() that saves the file as soon as the homing is done
SO100Follower_calibrate_saves_early(failed, positions, stream, presses) ==
    LET names == motor_names
        homing == set_half_turn_homings(names, positions)
        assembled == RangesAndEntries(names, homing.homing_offsets, stream, presses)
        injected == IF is_connected THEN StepIndex(CalibrateSteps, failed) ELSE 1
        fail_at == IF homing.err # NoError /\ injected > 3 THEN 3 ELSE injected
        log == [i \in 1..6 |->
                  <<BusCall(CalibrateSteps[i])>> \o
                  IF i = injected THEN <<>>
                  ELSE IF i = 2
                       THEN [j \in DOMAIN names |->
                               BusWrite("Operating_Mode", names[j], OperatingMode_POSITION)]
                  ELSE IF i = 3 THEN homing.steps
                  ELSE IF i = 4 THEN assembled.steps
                  ELSE <<>>]
        Logs[i \in 0..6] == IF i = 0 THEN <<>> ELSE Logs[i - 1] \o log[i]
    IN  /\ robot_class = "SO100Follower"
        /\ CalledProcedure([name |-> "SO100Follower.calibrate", failed |-> failed,
                            positions |-> positions, stream |-> stream,
                            presses |-> presses])
        /\ NoTransaction
        /\ UNCHANGED <<bus, sdk, robot_class>>
        /\ ret' = NoRet
        /\ err' = IF ~is_connected THEN "DeviceNotConnectedError"
                  ELSE IF fail_at > 6 THEN NoError
                  ELSE IF fail_at < injected THEN homing.err
                  ELSE IF failed = "_save_calibration" THEN "OSError"
                  ELSE "ConnectionError"
        /\ steps' = Logs[IF fail_at > 6 THEN 6 ELSE fail_at]
        /\ robot_calibration' = IF fail_at >= 5 THEN assembled.entries ELSE robot_calibration
        /\ calibration_file' \in
              IF fail_at > 3 THEN {assembled.entries} ELSE {calibration_file}

\* SO100Follower.calibrate() with the arm at positions when the user has put
\* it to the middle, then at stream[i] at the i-th read while the user moves
\* the joints; failed is the step the environment makes fail, or "none".
\* steps gets the calls on the bus, each step of the robot opened by its name.
SO100Follower_calibrate(failed, positions, stream, presses) ==
    LET names == motor_names
        homing == set_half_turn_homings(names, positions)
        assembled == RangesAndEntries(names, homing.homing_offsets, stream, presses)
        injected == IF is_connected THEN StepIndex(CalibrateSteps, failed) ELSE 1
        fail_at == IF homing.err # NoError /\ injected > 3 THEN 3 ELSE injected
        log == [i \in 1..6 |->
                  <<BusCall(CalibrateSteps[i])>> \o
                  IF i = injected THEN <<>>
                  ELSE IF i = 2
                       THEN [j \in DOMAIN names |->
                               BusWrite("Operating_Mode", names[j], OperatingMode_POSITION)]
                  ELSE IF i = 3 THEN homing.steps
                  ELSE IF i = 4 THEN assembled.steps
                  ELSE <<>>]
        Logs[i \in 0..6] == IF i = 0 THEN <<>> ELSE Logs[i - 1] \o log[i]
    IN  /\ robot_class = "SO100Follower"
        /\ CalledProcedure([name |-> "SO100Follower.calibrate", failed |-> failed,
                            positions |-> positions, stream |-> stream,
                            presses |-> presses])
        /\ NoTransaction
        /\ UNCHANGED <<bus, sdk, robot_class>>
        /\ ret' = NoRet
        /\ err' = IF ~is_connected THEN "DeviceNotConnectedError"
                  ELSE IF fail_at > 6 THEN NoError
                  ELSE IF fail_at < injected THEN homing.err
                  ELSE IF failed = "_save_calibration" THEN "OSError"
                  ELSE "ConnectionError"
        /\ steps' = Logs[IF fail_at > 6 THEN 6 ELSE fail_at]
        /\ robot_calibration' = IF fail_at >= 5 THEN assembled.entries ELSE robot_calibration
        /\ calibration_file' \in
              IF fail_at > 6 THEN {assembled.entries}
              ELSE IF fail_at = 6 THEN {calibration_file, TruncatedFile}
              ELSE {calibration_file}

\* the steps of SO100Robot.calibrate()
SO100RobotSteps == <<"find_offset", "find_min_max", "assemble", "open", "json.dump">>

\* str(motor_id)
Str(motor_id) == <<"1", "2", "3", "4", "5", "6">>[motor_id]

\* the dictionary SO100Robot.calibrate() assembles, by str(motor_id)
AssembledCalibration(offsets, min_max) ==
    [k \in {Str(motor_indices[i]) : i \in DOMAIN motors} |->
        LET name == motor_names[CHOOSE i \in DOMAIN motors :
                                   Str(motor_indices[i]) = k]
        IN  [name |-> name,
             homing_offset |-> IF name \in DOMAIN offsets
                               THEN offsets[name] ELSE 0,
             drive_mode |-> 0,
             min |-> min_max[name].min,
             max |-> min_max[name].max]]

\* SO100Robot.calibrate(): find_offset answers offsets, find_min_max answers
\* min_max; failed is the step the environment makes fail, or "none"
SO100Robot_calibrate(failed, offsets, min_max) ==
    LET missing == {n \in Range(motor_names) : n \notin DOMAIN min_max}
        injected == StepIndex(SO100RobotSteps, failed)
        fail_at == IF missing # {} /\ injected > 3 THEN 3 ELSE injected
        calib == AssembledCalibration(offsets, min_max)
    IN  /\ robot_class = "SO100Robot"
        /\ CalledProcedure([name |-> "SO100Robot.calibrate", failed |-> failed])
        /\ NoTransaction
        /\ UNCHANGED <<bus, sdk, robot_class, robot_calibration>>
        /\ ret' = NoRet
        /\ err' = IF fail_at > 5 THEN NoError
                  ELSE IF fail_at < injected THEN "KeyError"
                  ELSE IF fail_at >= 4 THEN "OSError"
                  ELSE "ConnectionError"
        /\ steps' = [i \in 1..(IF fail_at > 5 THEN 5 ELSE fail_at) |->
                       BusCall(SO100RobotSteps[i])]
        /\ calibration_file' =
              IF fail_at > 5 THEN calib
              ELSE IF fail_at = 5 THEN TruncatedFile
              ELSE calibration_file

\* the bound on the answers of enter_pressed()
MaxPresses == 2

\* the bound on the updates of the joystick reader
MaxUpdates == 3

\* the positions of the six motors, by motor id
ById(ticks) == [n \in Range(motor_names) |-> ticks[MotorOf(n).idx]]

PositionMaps ==
    { ById(<<1337, 42, 3672, 2047, 0, 4094>>),
      ById(<<2048, 2046, 1, 4000, 100, 4095>>) }

\* the samples of the sweep, by motor id
TestSamples ==
    << <<351, 28, 4002, 2047, 7, 1000>>,
       <<42, 3600, 2999, 2047, 3000, 999>>,
       <<1337, 2444, 146, 2047, 1, 1001>> >>

\* the sweep of the test, carried on when more samples are read
TestStream ==
    [i \in 1..(MaxPresses + 1) |->
       ById(IF i <= 3 THEN TestSamples[i]
            ELSE [m \in 1..6 |-> (353 * i + 211 * m) % 4096])]

Streams ==
    { TestStream,
      [i \in 1..(MaxPresses + 1) |->
         ById([m \in 1..6 |-> (997 * i + 389 * m) % 4096])] }

\* the answers of enter_pressed(): False until the user presses ENTER
Presses == {[i \in 1..n |-> i = n] : n \in 1..MaxPresses}

\* what find_offset and find_min_max answer
OffsetAnswers ==
    { [n \in Range(motor_names) |-> MotorOf(n).idx * 100 - 300],
      [n \in {"shoulder_pan", "gripper"} |-> 17] }

MinMaxAnswers ==
    { [n \in Range(motor_names) |-> [min |-> MotorOf(n).idx * 10, max |-> 4000 - MotorOf(n).idx]],
      [n \in Range(motor_names) \ {"elbow_flex"} |-> [min |-> 0, max |-> 4095]] }

RecordedMotors ==
    { motor_names, <<"shoulder_pan", "shoulder_lift", "elbow_flex">> }

InitRig ==
    /\ InitBus(SO100Motors, MODEL_CONTROL_TABLE)
    /\ robot_class \in {"SO100Follower", "SO100Robot"}

NextRig ==
    \/ \E open_ok \in BOOLEAN : connect(open_ok)
    \/ \E positions \in PositionMaps : call_set_half_turn_homings(positions)
    \/ \E names \in RecordedMotors, stream \in Streams, presses \in Presses :
          call_record_ranges_of_motion(names, stream, presses)
    \/ \E failed \in Range(CalibrateSteps) \cup {"none"}, positions \in PositionMaps,
          presses \in Presses :
          SO100Follower_calibrate(failed, positions, TestStream, presses)
    \/ \E failed \in (Range(SO100RobotSteps) \ {"assemble"}) \cup {"none"},
          offsets \in OffsetAnswers, min_max \in MinMaxAnswers :
          SO100Robot_calibrate(failed, offsets, min_max)

SpecRig == InitRig /\ [][NextRig]_vars

(***************************************************************************)
(* The robot in use: send_action, configure and connect of SO100Follower   *)
(* and SO100Robot.  The calls they make on the arm are logged in steps.    *)
(***************************************************************************)
\* goal_pos.astype(np.int32): every element truncated toward zero
astype_int32(goal_pos) == [i \in DOMAIN goal_pos |-> RatOfInt(TruncToZero(goal_pos[i]))]

\* the sync_write of send_action with the values it is passed
SyncWrite(data_name, values) ==
    [call |-> "sync_write", data_name |-> data_name, values |-> values]

\* the Goal_Position write that is passed what is returned
GoalWritten_as_returned(goal_pos) == goal_pos

\* what send_action passes to the Goal_Position write: SO100Robot casts the
\* array, SO100Follower passes goal_pos itself
GoalWritten(goal_pos) ==
    IF robot_class = "SO100Robot" THEN astype_int32(goal_pos) ELSE goal_pos

\* send_action(action); max_relative_target is the configured cap or None,
\* safe what ensure_safe_goal_position answers, failed the call on the arm
\* that raises, or "none"
send_action(action, max_relative_target, safe, failed) ==
    LET capped == max_relative_target # None
        goal_pos == IF capped THEN safe ELSE action
        reads == IF capped THEN <<BusRead("Present_Position", motor_names)>> ELSE <<>>
    IN  /\ CalledProcedure([name |-> "send_action", action |-> action,
                            max_relative_target |-> max_relative_target,
                            failed |-> failed])
        /\ calls' = 0 /\ built' = 0 /\ resolved' = FALSE /\ wire' = NoPacket
        /\ UNCHANGED <<bus, sdk, robot_calibration, calibration_file, robot_class>>
        /\ (failed = "sync_read") => capped
        /\ IF ~is_connected
           THEN /\ err' = "DeviceNotConnectedError"
                /\ ret' = NoRet
                /\ steps' = <<>>
           ELSE IF failed = "sync_read"
           THEN /\ err' = "ConnectionError"
                /\ ret' = NoRet
                /\ steps' = reads
           ELSE /\ steps' = reads \o <<SyncWrite("Goal_Position", GoalWritten(goal_pos))>>
                /\ IF failed = "sync_write"
                   THEN err' = "ConnectionError" /\ ret' = NoRet
                   ELSE err' = NoError /\ ret' = [goal_pos |-> goal_pos]

\* the answers of find_offset and find_min_max that name every motor
FirstOffsets == [n \in Range(motor_names) |-> MotorOf(n).idx * 100 - 300]

FirstMinMax ==
    [n \in Range(motor_names) |-> [min |-> MotorOf(n).idx * 10, max |-> 4000 - MotorOf(n).idx]]

\* the register of the operating mode each class writes
ModeRegister == IF robot_class = "SO100Robot" THEN "Mode" ELSE "Operating_Mode"

\* the operating parameters configure() writes to the motor name, in order
ParameterWrites(name) ==
    << BusWrite(ModeRegister, name, OperatingMode_POSITION),
       BusWrite("P_Coefficient", name, 16),
       BusWrite("I_Coefficient", name, 0),
       BusWrite("D_Coefficient", name, 32),
       BusWrite("Maximum_Acceleration", name, 254),
       BusWrite("Acceleration", name, 254) >>

\* the first loop of configure(): SO100Robot disables the torque of a motor
\* before it writes its parameters
RECURSIVE ConfigureLoop(_)
ConfigureLoop(names) ==
    IF names = <<>> THEN <<>>
    ELSE (IF robot_class = "SO100Robot"
          THEN <<BusWrite("Torque_Enable", names[1], 0)>> ELSE <<>>)
         \o ParameterWrites(names[1])
         \o ConfigureLoop(Tail(names))

\* the last loop of SO100Robot.configure()
EnableWrites(names) == [i \in DOMAIN names |-> BusWrite("Torque_Enable", names[i], 1)]

\* configure() that enables the torque of a motor as soon as it is set up
ConfigureCalls_enables_in_loop(has_file) ==
    LET RECURSIVE Each(_)
        Each(names) ==
            IF names = <<>> THEN <<>>
            ELSE <<BusWrite("Torque_Enable", names[1], 0)>>
                 \o ParameterWrites(names[1])
                 \o <<BusWrite("Torque_Enable", names[1], 1)>>
                 \o Each(Tail(names))
    IN  Each(motor_names)
        \o <<BusCall(IF has_file THEN "set_calibration" ELSE "calibrate")>>

\* the calls configure() makes on the arm, in order; has_file is whether
\* SO100Robot finds its calibration file
ConfigureCalls(has_file) ==
    IF robot_class = "SO100Robot"
    THEN ConfigureLoop(motor_names)
         \o <<BusCall(IF has_file THEN "set_calibration" ELSE "calibrate")>>
         \o EnableWrites(motor_names)
    ELSE <<BusCall("disable_torque"), BusCall("configure_motors")>>
         \o ConfigureLoop(motor_names)
         \o <<BusCall("enable_torque")>>

\* configure(); fail_at is the place of the call that raises, one past the
\* end when none does; offsets and min_max are what find_offset and
\* find_min_max answer when SO100Robot runs its calibration
configure(fail_at, offsets, min_max) ==
    LET has_file == calibration_file # NoCalibration
        the_calls == ConfigureCalls(has_file)
        missing == {n \in Range(motor_names) : n \notin DOMAIN min_max}
        \* the arm raises at the first call when it is not connected
        raises_at == IF ~is_connected THEN 1 ELSE fail_at
        made == IF raises_at > Len(the_calls) THEN the_calls
                ELSE SubSeq(the_calls, 1, raises_at)
        \* the place of the calibration step of SO100Robot
        calibration_at == Len(ConfigureLoop(motor_names)) + 1
        \* the calibration step was reached and returned
        calibrated == robot_class = "SO100Robot" /\ raises_at > calibration_at
    IN  /\ fail_at \in 1..(Len(the_calls) + 1)
        /\ CalledProcedure([name |-> "configure", fail_at |-> fail_at])
        \* a calibration that cannot be assembled is a calibrate() that raises
        /\ (~has_file /\ missing # {} /\ robot_class = "SO100Robot") =>
              fail_at <= calibration_at
        \* the answers are asked for only by a calibrate() that runs
        /\ (has_file \/ ~calibrated) =>
              (offsets = FirstOffsets /\ min_max = FirstMinMax)
        /\ calls' = 0 /\ built' = 0 /\ resolved' = FALSE /\ wire' = NoPacket
        /\ ret' = NoRet
        /\ UNCHANGED <<motors, model_ctrl_table, port_handler, packet_handler, is_connected,
                       group_readers, group_writers, sdk, robot_class, robot_calibration>>
        /\ steps' = made
        /\ err' = IF ~is_connected THEN "DeviceNotConnectedError"
                  ELSE IF raises_at > Len(the_calls) THEN NoError
                  ELSE "ConnectionError"
        /\ IF calibrated /\ ~has_file
           THEN /\ calibration_file' = AssembledCalibration(offsets, min_max)
                /\ UNCHANGED calibration
           ELSE IF calibrated
           THEN \* set_calibration(self.arm, self.calibration_fpath)
                /\ calibration' = [loaded |-> calibration_file]
                /\ UNCHANGED calibration_file
           ELSE UNCHANGED <<calibration, calibration_file>>

\* the steps of SO100Robot.connect() after arm.connect(), in order
SO100RobotConnectSteps == <<"configure", "sync_read", "cameras">>

\* SO100Robot.connect(); failed is the step that raises, or "none".  A
\* configure() that went through has run the calibration or loaded the file.
SO100Robot_connect(open_ok, failed) ==
    LET has_file == calibration_file # NoCalibration
        configured == open_ok /\ failed # "configure"
        fail_at == StepIndex(SO100RobotConnectSteps, failed)
    IN  /\ robot_class = "SO100Robot"
        /\ CalledProcedure([name |-> "SO100Robot.connect", failed |-> failed])
        /\ NoTransaction
        /\ UNCHANGED <<motors, model_ctrl_table, group_readers, group_writers,
                       robot_class, robot_calibration>>
        /\ IF is_connected
           THEN /\ err' = "DeviceAlreadyConnectedError"
                /\ steps' = <<>>
                /\ UNCHANGED <<port_handler, packet_handler, is_connected, calibration,
                               next_handler, port_open, packet_timeout, calibration_file>>
           ELSE /\ OpenSession(open_ok, IF failed = "none" THEN NoError ELSE "ConnectionError")
                /\ steps' = IF ~open_ok THEN <<>>
                            ELSE [i \in 1..(IF fail_at > 3 THEN 3 ELSE fail_at) |->
                                    BusCall(SO100RobotConnectSteps[i])]
                /\ calibration_file' = IF configured /\ ~has_file
                                       THEN AssembledCalibration(FirstOffsets, FirstMinMax)
                                       ELSE calibration_file
                /\ calibration' = IF configured /\ has_file
                                  THEN [loaded |-> calibration_file] ELSE calibration

\* disconnect() of the robot: the arm, then every camera; cameras_ok is
\* whether every cam.disconnect() returns
robot_disconnect(cameras_ok) ==
    /\ CalledProcedure([name |-> "robot.disconnect", cameras_ok |-> cameras_ok])
    /\ NoTransaction
    /\ steps' = <<>>
    /\ UNCHANGED <<motors, model_ctrl_table, calibration, next_handler, packet_timeout,
                   robot_calibration, calibration_file, robot_class>>
    /\ IF ~is_connected
       THEN /\ err' = "DeviceNotConnectedError"
            /\ UNCHANGED <<port_handler, packet_handler, is_connected,
                           group_readers, group_writers, port_open>>
       ELSE /\ port_open' = IF port_handler # None
                            THEN port_open \ {port_handler} ELSE port_open
            /\ port_handler' = None
            /\ packet_handler' = None
            /\ group_readers' = EmptyCache
            /\ group_writers' = EmptyCache
            /\ is_connected' = FALSE
            /\ err' = IF cameras_ok THEN NoError ELSE "CameraError"

\* the places configure() can fail at: each call of the longest sequence
ConfigurePlaces == 1..(Len(SO100Motors) * 8 + 2)

\* the actions sent: whole ticks, and positions between two ticks
Actions ==
    { [i \in DOMAIN SO100Motors |-> v] : v \in {RatOfInt(100), Rat(201, 2)} }

\* max_relative_target of the configuration
RelativeTargets == {None, 5}

\* SpecRobot: a robot of either class in use
NextRobot ==
    \/ \E open_ok \in BOOLEAN : connect(open_ok)
    \/ \E action \in Actions, max_relative_target \in RelativeTargets, safe \in Actions,
          failed \in {"none", "sync_read", "sync_write"} :
          send_action(action, max_relative_target, safe, failed)
    \/ \E fail_at \in ConfigurePlaces, offsets \in OffsetAnswers :
          configure(fail_at, offsets, FirstMinMax)

SpecRobot == InitRig /\ [][NextRobot]_vars

\* SpecConnect: the robot connected, used and disconnected
NextConnect ==
    \/ /\ robot_class = "SO100Follower"
       /\ \E open_ok \in BOOLEAN, failed \in RobotSteps \cup {"none"}, calib \in Calibrations :
             SO100Follower_connect(open_ok, failed, calib)
    \/ \E open_ok \in BOOLEAN, failed \in Range(SO100RobotConnectSteps) \cup {"none"} :
          SO100Robot_connect(open_ok, failed)
    \/ \E cameras_ok \in BOOLEAN : robot_disconnect(cameras_ok)
    \/ \E action \in Actions, failed \in {"none", "sync_write"} :
          send_action(action, None, action, failed)
    \/ \E fail_at \in {1, 2, Len(ConfigureCalls(calibration_file # NoCalibration)) + 1} :
          configure(fail_at, FirstOffsets, FirstMinMax)

SpecConnect == InitRig /\ [][NextConnect]_vars

(***************************************************************************)
(* JoystickInterface: the reader process publishes in two writes to the     *)
(* dictionary of the manager what get_action reads in two reads.  Each     *)
(* access to the dictionary is one step.  An action is the stamp of the    *)
(* axis event that set it, the buttons are one button.                     *)
(***************************************************************************)
\* the events one get_gamepad() delivers
GamepadEvents == {"axis", "button", "both"}

\* _read_joystick: events = inputs.get_gamepad() and the loop over them
process_events(events) ==
    /\ joy_reader.pc = "get_gamepad"
    /\ updates < MaxUpdates
    /\ updates' = updates + 1
    /\ joy_reader' = [pc |-> "write_action",
                  action |-> IF events \in {"axis", "both"} THEN updates + 1
                             ELSE joy_reader.action,
                  buttons |-> IF events \in {"button", "both"} THEN ~joy_reader.buttons
                              ELSE joy_reader.buttons]
    /\ published' = published \cup {<<joy_reader'.action, joy_reader'.buttons>>}
    /\ UNCHANGED <<latest_data, joy_caller>>
    /\ UNCHANGED <<bus, sdk, last, robot, fleet, adapter>>

\* self.latest_data["action"] = action
publish_action ==
    /\ joy_reader.pc = "write_action"
    /\ latest_data' = [latest_data EXCEPT !.action = joy_reader.action]
    /\ joy_reader' = [joy_reader EXCEPT !.pc = "write_buttons"]
    /\ UNCHANGED <<joy_caller, published, updates>>
    /\ UNCHANGED <<bus, sdk, last, robot, fleet, adapter>>

\* self.latest_data["buttons"] = buttons
publish_buttons ==
    /\ joy_reader.pc = "write_buttons"
    /\ latest_data' = [latest_data EXCEPT !.buttons = joy_reader.buttons]
    /\ joy_reader' = [joy_reader EXCEPT !.pc = "get_gamepad"]
    /\ UNCHANGED <<joy_caller, published, updates>>
    /\ UNCHANGED <<bus, sdk, last, robot, fleet, adapter>>

\* get_action: action = self.latest_data["action"]
get_action_reads_action ==
    /\ joy_caller.pc \in {"idle", "returned"}
    /\ joy_caller' = [pc |-> "read_buttons", action |-> latest_data.action,
                  buttons |-> joy_caller.buttons]
    /\ UNCHANGED <<latest_data, joy_reader, published, updates>>
    /\ UNCHANGED <<bus, sdk, last, robot, fleet, adapter>>

\* get_action: buttons = self.latest_data["buttons"]; return np.array(action), buttons
get_action_returns ==
    /\ joy_caller.pc = "read_buttons"
    /\ joy_caller' = [joy_caller EXCEPT !.pc = "returned", !.buttons = latest_data.buttons]
    /\ UNCHANGED <<latest_data, joy_reader, published, updates>>
    /\ UNCHANGED <<bus, sdk, last, robot, fleet, adapter>>

\* SpecJoystick: the reader process and one caller, interleaved
NextJoystick ==
    \/ \E events \in GamepadEvents : process_events(events)
    \/ publish_action
    \/ publish_buttons
    \/ get_action_reads_action
    \/ get_action_returns

SpecJoystick == Init /\ [][NextJoystick]_vars

(***************************************************************************)
(* Two instances of the bus.  An attribute that holds a dictionary holds a *)
(* reference to it, and an assignment to a key changes the dictionary for  *)
(* everyone who holds the reference.                                       *)
(***************************************************************************)
\* the port given to the instance b: the two instances are on different ports
PortOf(b) == b

\* the smallest reference no object of h has
Fresh(h) ==
    CHOOSE r \in 1..(Cardinality(DOMAIN h) + 1) :
        r \notin DOMAIN h /\ \A s \in 1..(r - 1) : s \in DOMAIN h

\* h with a new object that holds content
Alloc(h, content) == h @@ (Fresh(h) :> content)

\* the references the instances hold, and the tables of the module
Reachable(insts) ==
    {1} \cup UNION { {insts[b].model_ctrl_table, insts[b].group_readers,
                      insts[b].group_writers} :
                     b \in {c \in Buses : insts[c] # NoInstance} }

\* the instances and the objects after a call; an object no one holds is gone
Commit(insts, h) ==
    /\ instances' = insts
    /\ heap' = [r \in DOMAIN h \cap Reachable(insts) |-> h[r]]

\* the instance b as a caller sees it through its attributes
ViewOf(b) ==
    IF instances[b] = NoInstance THEN NoInstance
    ELSE [constructed |-> TRUE,
          is_connected |-> instances[b].is_connected,
          port_handler |-> instances[b].port_handler,
          packet_handler |-> instances[b].packet_handler,
          calibration |-> instances[b].calibration,
          model_ctrl_table |-> heap[instances[b].model_ctrl_table],
          group_readers |-> heap[instances[b].group_readers],
          group_writers |-> heap[instances[b].group_writers],
          port_is_open |-> PortOf(b) \in open_ports]

\* the method name is called on the instance b
CalledOn(b, name) ==
    /\ op' = [name |-> name, bus |-> b]
    /\ before' = ViewOf(b)
    /\ NoTransaction
    /\ UNCHANGED <<bus, sdk, robot, adapter, joystick>>

\* __init__ that takes the readers of the instance made before it
bus_init_shared_readers(b) ==
    LET others == {c \in Buses : instances[c] # NoInstance}
        h1 == Alloc(heap, heap[1])
        h2 == IF others = {} THEN Alloc(h1, EmptyCache) ELSE h1
        h3 == Alloc(h2, EmptyCache)
    IN  /\ instances[b] = NoInstance
        /\ CalledOn(b, "__init__")
        /\ err' = NoError
        /\ UNCHANGED open_ports
        /\ Commit([instances EXCEPT ![b] =
                      [port |-> PortOf(b), motors |-> UniformMotors,
                       model_ctrl_table |-> Fresh(heap),
                       port_handler |-> None, packet_handler |-> None,
                       calibration |-> NoCalibration, is_connected |-> FALSE,
                       group_readers |-> IF others = {} THEN Fresh(h1)
                                         ELSE instances[CHOOSE c \in others : TRUE].group_readers,
                       group_writers |-> Fresh(h2)]], h3)

\* FeetechMotorsBus(port, motors): the table is a deep copy of the table of
\* the module, and each cache is a new dictionary
bus_init(b) ==
    LET h1 == Alloc(heap, heap[1])
        h2 == Alloc(h1, EmptyCache)
        h3 == Alloc(h2, EmptyCache)
    IN  /\ instances[b] = NoInstance
        /\ CalledOn(b, "__init__")
        /\ err' = NoError
        /\ UNCHANGED open_ports
        /\ Commit([instances EXCEPT ![b] =
                      [port |-> PortOf(b), motors |-> UniformMotors,
                       model_ctrl_table |-> Fresh(heap),
                       port_handler |-> None, packet_handler |-> None,
                       calibration |-> NoCalibration, is_connected |-> FALSE,
                       group_readers |-> Fresh(h1),
                       group_writers |-> Fresh(h2)]], h3)

\* connect() on the instance b; the handlers are made for its port
bus_connect(b, open_ok) ==
    /\ instances[b] # NoInstance
    /\ CalledOn(b, "connect")
    /\ IF instances[b].is_connected
       THEN /\ err' = "DeviceAlreadyConnectedError"
            /\ UNCHANGED open_ports
            /\ Commit(instances, heap)
       ELSE /\ err' = IF open_ok THEN NoError ELSE "OSError"
            /\ open_ports' = IF open_ok THEN open_ports \cup {PortOf(b)} ELSE open_ports
            /\ Commit([instances EXCEPT ![b].port_handler = PortOf(b),
                                        ![b].packet_handler = PortOf(b),
                                        ![b].is_connected = open_ok], heap)

\* the names and the identifiers of all the motors of the instance b
NamesOf(b) == [i \in DOMAIN instances[b].motors |-> instances[b].motors[i].name]

IdsOf(b) == [i \in DOMAIN instances[b].motors |-> instances[b].motors[i].idx]

\* read(data_name) on the instance b: the reader is put in the dictionary
\* self.group_readers refers to, then the packet is sent
bus_read(b, data_name, comm_ok) ==
    LET self == instances[b]
        table == heap[self.model_ctrl_table]
        reg == table[self.motors[Len(self.motors)].model][data_name]
        group_key == get_group_sync_key(data_name, NamesOf(b))
        init_group == data_name \notin DOMAIN heap[self.group_readers]
        reader == GroupSyncRead(self.port_handler, self.packet_handler,
                                reg[1], reg[2], IdsOf(b))
    IN  /\ self # NoInstance
        /\ CalledOn(b, "read")
        /\ UNCHANGED open_ports
        /\ IF ~self.is_connected
           THEN /\ err' = "DeviceNotConnectedError"
                /\ Commit(instances, heap)
           ELSE /\ err' = IF comm_ok THEN NoError ELSE "ConnectionError"
                /\ Commit(instances,
                          IF init_group
                          THEN [heap EXCEPT ![self.group_readers] = Put(@, group_key, reader)]
                          ELSE heap)

\* write(data_name, values) on the instance b: the writer is put in the
\* dictionary self.group_writers refers to, then the packet is sent
bus_write(b, data_name, comm_ok) ==
    LET self == instances[b]
        table == heap[self.model_ctrl_table]
        reg == table[self.motors[Len(self.motors)].model][data_name]
        group_key == get_group_sync_key(data_name, NamesOf(b))
        init_group == data_name \notin DOMAIN heap[self.group_readers]
        writer == GroupSyncWrite(self.port_handler, self.packet_handler,
                                 reg[1], reg[2], IdsOf(b),
                                 [i \in DOMAIN IdsOf(b) |-> <<0, 8>>])
    IN  /\ self # NoInstance
        /\ CalledOn(b, "write")
        /\ UNCHANGED open_ports
        /\ IF ~self.is_connected
           THEN /\ err' = "DeviceNotConnectedError"
                /\ Commit(instances, heap)
           ELSE /\ err' = IF comm_ok THEN NoError ELSE "ConnectionError"
                /\ Commit(instances,
                          IF init_group
                          THEN [heap EXCEPT ![self.group_writers] = Put(@, group_key, writer)]
                          ELSE heap)

\* set_calibration(calibration) on the instance b
bus_set_calibration(b, calib) ==
    /\ instances[b] # NoInstance
    /\ CalledOn(b, "set_calibration")
    /\ err' = NoError
    /\ UNCHANGED open_ports
    /\ Commit([instances EXCEPT ![b].calibration = calib], heap)

\* disconnect() on the instance b: each cache attribute gets a new dictionary
bus_disconnect(b) ==
    LET self == instances[b]
        h1 == Alloc(heap, EmptyCache)
        h2 == Alloc(h1, EmptyCache)
    IN  /\ self # NoInstance
        /\ CalledOn(b, "disconnect")
        /\ IF ~self.is_connected
           THEN /\ err' = "DeviceNotConnectedError"
                /\ UNCHANGED open_ports
                /\ Commit(instances, heap)
           ELSE /\ err' = NoError
                /\ open_ports' = open_ports \ {PortOf(b)}
                /\ Commit([instances EXCEPT ![b].port_handler = None,
                                            ![b].packet_handler = None,
                                            ![b].group_readers = Fresh(heap),
                                            ![b].group_writers = Fresh(h1),
                                            ![b].is_connected = FALSE], h2)

InitFleet == InitWith(UniformMotors, MODEL_CONTROL_TABLE)

NextFleet ==
    \E b \in Buses :
        \/ bus_init(b)
        \/ \E open_ok \in BOOLEAN : bus_connect(b, open_ok)
        \/ \E comm_ok \in BOOLEAN : bus_read(b, "Present_Position", comm_ok)
        \/ \E comm_ok \in BOOLEAN : bus_write(b, "Goal_Position", comm_ok)
        \/ \E calib \in Calibrations : bus_set_calibration(b, calib)
        \/ bus_disconnect(b)

SpecFleet == InitFleet /\ [][NextFleet]_vars

\* whether the instance has not been destroyed
Alive == op.name # "__del__"

\* SpecDel: the life of one instance up to its destruction
NextDel ==
    /\ Alive
    /\ \/ \E open_ok \in BOOLEAN : connect(open_ok)
       \/ \E open_ok \in BOOLEAN : reconnect(open_ok)
       \/ disconnect
       \/ \E k \in {0, NUM_READ_RETRY} : read("Present_Position", AllMotors, k)
       \/ \E k \in {0, 1} : write("Goal_Position", Scalar50, AllMotors, k)
       \/ __del__

SpecDel == Init /\ [][NextDel]_vars

\* convert_to_bytes(value, bytes) called on its own
call_convert_to_bytes(value, bytes) ==
    LET res == convert_to_bytes(value, bytes)
    IN
    /\ Called([name |-> "convert_to_bytes", value |-> value, bytes |-> bytes])
    /\ UNCHANGED <<bus, sdk>>
    /\ calls' = 0 /\ built' = 0 /\ resolved' = FALSE /\ wire' = NoPacket
    /\ err' = res.err
    /\ ret' = IF res.err = NoError THEN [data |-> res.data] ELSE NoRet

\* values given to the codec: a sweep from 0, the test vectors, the two sides
\* of the largest value of each width, and negative numbers
CodecValues ==
    (0..MaxSweep)
    \cup {18, 4660, 305419896, 100}
    \cup {127, 128, 255, 256, 257, 32767, 32768, 65535, 65536, 65537,
          16777215, 16777216, 2147483647}
    \cup {-1, -2, -128, -255, -256, -65536, -2147483647}

\* byte widths given to the codec
CodecWidths == 0..MaxWidth

\* SpecCodec: the byte codec on every value and width of the two sets
NextCodec ==
    \E value \in CodecValues, bytes \in CodecWidths : call_convert_to_bytes(value, bytes)

SpecCodec == Init /\ [][NextCodec]_vars

(***************************************************************************)
(* Claims                                                                  *)
(***************************************************************************)
TransactionMethods == {"read", "write", "read_with_motor_ids", "write_with_motor_ids"}

\* the group key of the read or write o
GroupKeyOf(o) == get_group_sync_key(o.data_name, o.motor_names)

\* C1: a transaction method called on a bus that is not connected fails with
\* the not-connected error before the register is resolved, before a group
\* object is built, before a packet is sent and before any attempt is made.
C1_NotConnectedCheckedFirst ==
    (op.name \in TransactionMethods /\ ~before.is_connected) =>
        /\ err = "DeviceNotConnectedError"
        /\ ~resolved
        /\ built = 0
        /\ calls = 0
        /\ wire = NoPacket

\* the values the devices hold for the read o, in the order o asks for them
TransportValues(o) ==
    [i \in DOMAIN o.motor_ids |->
        Memory(o.motor_ids[i], model_ctrl_table[o.motor_models[1]][o.data_name][1])]

\* C2: a read with num_retry = N on a connected bus whose transport fails its
\* first K <= N attempts succeeds, returns the transport's values and invokes
\* the transport exactly K+1 times.
C2_RetrySuccess ==
    (/\ op.name = "read_with_motor_ids"
     /\ before.is_connected
     /\ op.num_invalid_try <= op.num_retry) =>
        /\ err = NoError
        /\ calls = op.num_invalid_try + 1
        /\ \/ ret = [list |-> TransportValues(op)]
           \/ ret = [scalar |-> TransportValues(op)[1]]

\* C3: a read with num_retry = N on a connected bus whose transport fails its
\* first K > N attempts raises ConnectionError after exactly N+1 invocations.
C3_RetryExhaustion ==
    (/\ op.name = "read_with_motor_ids"
     /\ before.is_connected
     /\ op.num_invalid_try > op.num_retry) =>
        /\ err = "ConnectionError"
        /\ calls = op.num_retry + 1

\* C4: in a connected session a successful read (write) whose group key is
\* not cached builds one group object and caches it under the key; one whose
\* key is cached builds nothing and keeps the cached object's address and width.
C4_GroupCacheReuse ==
    [][ /\ (op'.name = "read" /\ is_connected /\ err' = NoError) =>
             /\ GroupKeyOf(op') \in DOMAIN group_readers'
             /\ IF GroupKeyOf(op') \in DOMAIN group_readers
                THEN /\ built' = 0
                     /\ group_readers'[GroupKeyOf(op')].start_address =
                          group_readers[GroupKeyOf(op')].start_address
                     /\ group_readers'[GroupKeyOf(op')].data_length =
                          group_readers[GroupKeyOf(op')].data_length
                ELSE built' = 1
        /\ (op'.name = "write" /\ is_connected /\ err' = NoError) =>
             /\ GroupKeyOf(op') \in DOMAIN group_writers'
             /\ IF GroupKeyOf(op') \in DOMAIN group_writers
                THEN /\ built' = 0
                     /\ group_writers'[GroupKeyOf(op')].start_address =
                          group_writers[GroupKeyOf(op')].start_address
                     /\ group_writers'[GroupKeyOf(op')].data_length =
                          group_writers[GroupKeyOf(op')].data_length
                ELSE built' = 1
      ]_vars

\* C5: disconnect() on a bus that is not connected raises
\* DeviceNotConnectedError and changes nothing; on a connected bus it closes
\* the port, drops both handlers, empties both group caches and leaves
\* is_connected false.
C5_Disconnect ==
    [][ (op'.name = "disconnect") =>
          IF ~is_connected
          THEN /\ err' = "DeviceNotConnectedError"
               /\ UNCHANGED <<bus, sdk>>
          ELSE /\ err' = NoError
               /\ port_handler \notin port_open'
               /\ port_handler' = None
               /\ packet_handler' = None
               /\ group_readers' = EmptyCache
               /\ group_writers' = EmptyCache
               /\ ~is_connected'
      ]_vars

\* a disconnect that found a connected bus with groups in both caches
C5_Witness ==
    /\ op.name = "disconnect"
    /\ before.is_connected
    /\ before.readers # {}
    /\ before.writers # {}
    /\ err = NoError
    /\ ~is_connected

\* C6: connect() of the bus or of the robot on an already connected bus raises
\* DeviceAlreadyConnectedError and leaves the session as it was: handlers,
\* caches and is_connected unchanged, no handler made and no port opened.
C6_ConnectTwice ==
    [][ (op'.name \in {"connect", "SO100Follower.connect"} /\ is_connected) =>
          /\ err' = "DeviceAlreadyConnectedError"
          /\ UNCHANGED <<port_handler, packet_handler, group_readers, group_writers,
                         is_connected, calibration>>
          /\ UNCHANGED sdk
      ]_vars

\* a connect() refused on a session that holds cached groups
C6_Witness ==
    /\ op.name = "connect"
    /\ before.is_connected
    /\ before.readers # {}
    /\ before.writers # {}
    /\ err = "DeviceAlreadyConnectedError"
    /\ port_handler \in port_open

\* C7: no step replaces or re-opens the transport of a connected bus, and every
\* group object cached on a connected bus is bound to the handlers of the
\* current session.
C7_SessionLifecycle ==
    [][ /\ (is_connected /\ is_connected') =>
             /\ port_handler' = port_handler
             /\ packet_handler' = packet_handler
             /\ port_open' = port_open
        /\ is_connected' =>
             /\ \A key \in DOMAIN group_readers' :
                   /\ group_readers'[key].port = port_handler'
                   /\ group_readers'[key].ph = packet_handler'
             /\ \A key \in DOMAIN group_writers' :
                   /\ group_writers'[key].port = port_handler'
                   /\ group_writers'[key].ph = packet_handler'
      ]_vars

\* C8: a write() on a connected bus whose first transmission fails and whose
\* second succeeds does not fail, and a write() raises ConnectionError only
\* after NUM_WRITE_RETRY transmissions at least.
C8_WriteRetried ==
    (op.name = "write" /\ before.is_connected) =>
        /\ (op.num_invalid_try = 1) => (err = NoError /\ calls = 2)
        /\ (err = "ConnectionError") => calls >= NUM_WRITE_RETRY

\* the value read returns for the motor name alone: its device's register,
\* calibrated when the register needs it and a calibration is set
ExpectedValue(data_name, name) ==
    LET raw == Memory(MotorOf(name).idx,
                      model_ctrl_table[MotorOf(name).model][data_name][1])
    IN  IF data_name \in CALIBRATION_REQUIRED /\ calibration # NoCalibration
        THEN apply_calibration(calibration, <<raw>>, <<name>>).values[1]
        ELSE RatOfInt(raw)

\* C9: a successful read returns one value per requested motor, the i-th that
\* of the i-th requested motor (all motors in registration order without a
\* selector); a read whose every exchange fails raises ConnectionError; a read
\* that raises returns nothing.
C9_ReadAllOrNothingOrdered ==
    (op.name = "read") =>
        /\ (op.selector = "None") => (op.motor_names = motor_names)
        /\ (err = NoError) =>
             /\ ret # NoRet
             /\ Len(ret.array) = Len(op.motor_names)
             /\ \A i \in DOMAIN op.motor_names :
                   ret.array[i] = ExpectedValue(op.data_name, op.motor_names[i])
        /\ (calls > 0 /\ op.num_invalid_try >= calls) => (err = "ConnectionError")
        /\ (err # NoError) => (ret = NoRet)

\* a read of two motors that failed although one device had answered
C9_Witness ==
    /\ op.name = "read"
    /\ Len(op.motor_names) = 2
    /\ err = "ConnectionError"
    /\ ret = NoRet
    /\ GroupKeyOf(op) \in DOMAIN group_readers
    /\ DOMAIN group_readers[GroupKeyOf(op)].data # {}

\* whether the control tables of models give data_name different addresses or
\* different widths
Disagree(models, data_name) ==
    /\ \A i \in DOMAIN models : data_name \in DOMAIN model_ctrl_table[models[i]]
    /\ \E i, j \in DOMAIN models :
          model_ctrl_table[models[i]][data_name] # model_ctrl_table[models[j]][data_name]

Absent(models, data_name) ==
    \E i \in DOMAIN models : data_name \notin DOMAIN model_ctrl_table[models[i]]

C12_Uncalibrated ==
    (op.name \in {"read", "write"} /\ before.is_connected
        /\ op.data_name \in CALIBRATION_REQUIRED
        /\ calibration = NoCalibration) =>
        /\ err # NoError
        /\ ret = NoRet
        /\ (op.name = "write") => (wire = NoPacket)

\* the calibration entry of the motor name
CalibIndex(name) == IndexOf(calibration.motor_names, name)

\* the unsigned integer a little-endian byte list encodes
RECURSIVE WireTick(_)
WireTick(data) ==
    IF data = <<>> THEN 0 ELSE data[1] + 256 * WireTick(Tail(data))

\* whether the integer tick is a nearest integer of the fraction r
IsNearest(tick, r) == 2 * Abs(tick * r[2] - r[1]) <= r[2]

\* the value the caller gave for the i-th motor of the write o
Given(o, i) == IF o.values.scalar THEN o.values.values[1] ELSE o.values.values[i]

\* range_min + v/100 * (range_max - range_min) for the motor name
LinearRaw(v, name) ==
    LET start_pos == calibration.start_pos[CalibIndex(name)]
        end_pos == calibration.end_pos[CalibIndex(name)]
    IN  Rat(v[1] * (end_pos - start_pos) + 100 * v[2] * start_pos, 100 * v[2])

\* C13: a successful write of Goal_Position sends, for every motor calibrated
\* in linear mode, the integer tick nearest to
\* range_min + v/100*(range_max-range_min), whatever numeric form v was given
\* in (range [0, 4095] and v = 50: tick 2048).
C13_LinearRevertRounds ==
    (op.name = "write" /\ err = NoError /\ op.data_name = "Goal_Position"
        /\ calibration # NoCalibration) =>
        \A i \in DOMAIN op.motor_names :
            (calibration.calib_mode[CalibIndex(op.motor_names[i])] = "LINEAR") =>
                /\ wire.params[i][1] = MotorOf(op.motor_names[i]).idx
                /\ IsNearest(WireTick(wire.params[i][2]),
                             LinearRaw(Given(op, i), op.motor_names[i]))
                /\ (Given(op, i) = RatOfInt(50)) => (WireTick(wire.params[i][2]) = 2048)

\* (raw - range_min) / (range_max - range_min) * 100 for the motor name
LinearNorm(raw, name) ==
    Rat((raw - calibration.start_pos[CalibIndex(name)]) * 100,
        calibration.end_pos[CalibIndex(name)] - calibration.start_pos[CalibIndex(name)])

\* whether the i-th motor of the call o is calibrated in linear mode
IsLinear(o, i) == calibration.calib_mode[CalibIndex(o.motor_names[i])] = "LINEAR"

\* whether the i-th value of the apply o is a linear one outside [-10, 110]
OutOfBand(o, i) ==
    /\ IsLinear(o, i)
    /\ LET v == LinearNorm(o.values[i], o.motor_names[i])
       IN  v[1] < -10 * v[2] \/ v[1] > 110 * v[2]

\* whether the range of every linear motor of the call o is not empty
RangesDefined(o) ==
    \A i \in DOMAIN o.motor_names :
        IsLinear(o, i) =>
            calibration.start_pos[CalibIndex(o.motor_names[i])]
                # calibration.end_pos[CalibIndex(o.motor_names[i])]

\* C14: apply raises JointOutOfRangeError exactly when a linear motor of the
\* call has its normalized value below -10 or above 110; otherwise (the values
\* -10, 0, 100 and 110 included) it returns that normalized value.
C14_LinearBand ==
    (op.name = "apply_calibration" /\ calibration # NoCalibration /\ RangesDefined(op)) =>
        IF \E i \in DOMAIN op.motor_names : OutOfBand(op, i)
        THEN err = "JointOutOfRangeError" /\ ret = NoRet
        ELSE /\ err = NoError
             /\ \A i \in DOMAIN op.motor_names :
                   IsLinear(op, i) =>
                       ret.array[i] = LinearNorm(op.values[i], op.motor_names[i])

\* an apply that accepted a linear value of exactly 110
C14_Witness ==
    /\ op.name = "apply_calibration"
    /\ err = NoError
    /\ \E i \in DOMAIN op.motor_names :
          IsLinear(op, i) /\ ret.array[i] = RatOfInt(110)

\* whether the motor name is calibrated in degree mode
IsDegree(name) ==
    /\ name \in Range(calibration.motor_names)
    /\ calibration.calib_mode[CalibIndex(name)] = "DEGREE"

\* revert_calibration(apply_calibration([t], [name]), [name]) for one motor
RoundTrip(t, name) ==
    LET applied == apply_calibration(calibration, <<t>>, <<name>>)
    IN  revert_calibration(calibration, "float", applied.values, <<name>>)

\* C15: reverting what apply returned for a raw tick t in [0, resolution-1] of
\* a degree-mode motor, with drive_mode 0 or 1, gives a tick at most 1 away
\* from t: for the calls made, and for every tick under each calibration set.
C15_DegreeRoundTrip ==
    /\ (op.name = "revert_calibration" /\ op.applied_from # <<>>) =>
          /\ err = NoError
          /\ \A i \in DOMAIN op.motor_names :
                (/\ IsDegree(op.motor_names[i])
                 /\ op.applied_from[i] < MODEL_RESOLUTION(MotorOf(op.motor_names[i]).model)) =>
                    Abs(ret.ticks[i] - op.applied_from[i]) <= 1
    /\ (op.name = "set_calibration") =>
          \A i \in DOMAIN motor_names :
              IsDegree(motor_names[i]) =>
                  \A t \in 0..(MODEL_RESOLUTION(motor_models[i]) - 1) :
                      /\ RoundTrip(t, motor_names[i]).err = NoError
                      /\ Abs(RoundTrip(t, motor_names[i]).values[1] - t) <= 1

\* the round trip of tick 0, the end of the turn, on a motor with drive_mode 1
C15_Witness ==
    /\ op.name = "revert_calibration"
    /\ op.applied_from = <<0>>
    /\ IsDegree(op.motor_names[1])
    /\ DriveModeOf(calibration, MotorOf(op.motor_names[1]).idx) = 1
    /\ ret = [ticks |-> <<0>>]

\* the homed tick an angle in degrees stands for on the motor name
HomedTickOf(degrees, name) ==
    Rat(degrees[1] * MODEL_RESOLUTION(MotorOf(name).model), degrees[2] * 360)

\* C16: for a degree-mode motor with drive_mode 0 and a raw tick in
\* [0, resolution-1], apply returns an angle in [-180, 180), that of a homed
\* tick in [-resolution/2, resolution/2 - 1].
C16_DegreeWrapRange ==
    (op.name = "apply_calibration" /\ err = NoError) =>
        \A i \in DOMAIN op.motor_names :
            (/\ IsDegree(op.motor_names[i])
             /\ DriveModeOf(calibration, MotorOf(op.motor_names[i]).idx) = 0
             /\ op.values[i] < MODEL_RESOLUTION(MotorOf(op.motor_names[i]).model)) =>
                LET half == MODEL_RESOLUTION(MotorOf(op.motor_names[i]).model) \div 2
                    homed == HomedTickOf(ret.array[i], op.motor_names[i])
                IN  /\ homed[2] = 1
                    /\ -half <= homed[1] /\ homed[1] <= half - 1
                    /\ ~RatLess(ret.array[i], -180)
                    /\ RatLess(ret.array[i], 180)

\* whether raw is the raw goal built from the homed tick h of the motor name,
\* in either drive mode
BuiltFromHomed(raw, h, name) ==
    LET resolutions == MODEL_RESOLUTION(MotorOf(name).model)
    IN  raw \in {(h + (resolutions \div 2)) % resolutions,
                 (-h + (resolutions \div 2)) % resolutions}

\* C17: revert of an angle d for a degree-mode motor builds the raw goal from
\* a homed tick that is an integer nearest to d*resolution/360.
C17_DegreeRevertRounds ==
    (op.name = "revert_calibration" /\ op.applied_from = <<>> /\ err = NoError) =>
        \A i \in DOMAIN op.motor_names :
            IsDegree(op.motor_names[i]) =>
                \E h \in -MODEL_RESOLUTION(MotorOf(op.motor_names[i]).model)
                            ..MODEL_RESOLUTION(MotorOf(op.motor_names[i]).model) :
                    /\ IsNearest(h, HomedTickOf(op.values.values[i], op.motor_names[i]))
                    /\ BuiltFromHomed(ret.ticks[i], h, op.motor_names[i])

\* the drive_mode of the calibration entry of the motor name
OwnDriveMode(name) == calibration.drive_mode[CalibIndex(name)]

\* the angle of the raw tick for the motor name, the sign flipped when the
\* motor's own entry sets drive_mode
OwnDegrees(raw, name) ==
    LET m == MotorOf(name)
        d == convert_ticks_to_degrees(
                 adjusted_to_homing_ticks(raw, m.model, NoCalibration, m.idx), m.model)
    IN  IF OwnDriveMode(name) # 0 THEN <<-d[1], d[2]>> ELSE d

\* the raw goal of the angle for the motor name, the sign flipped when the
\* motor's own entry sets drive_mode
OwnRawGoal(degrees, name) ==
    LET m == MotorOf(name)
        h == convert_degrees_to_ticks(degrees, m.model)
    IN  adjusted_to_motor_ticks(IF OwnDriveMode(name) # 0 THEN -h ELSE h,
                                m.model, NoCalibration, m.idx)

\* C18: apply and revert give, for every motor of the call, the value that
\* the calibration entry carrying the motor's name prescribes (its mode, its
\* drive_mode, its range), the same as a call for that motor alone gives.
C18_OwnCalibrationEntry ==
    /\ (op.name = "apply_calibration" /\ err = NoError) =>
          \A i \in DOMAIN op.motor_names :
              /\ IsDegree(op.motor_names[i]) =>
                    ret.array[i] = OwnDegrees(op.values[i], op.motor_names[i])
              /\ (IsLinear(op, i) /\ RangesDefined(op)) =>
                    ret.array[i] = LinearNorm(op.values[i], op.motor_names[i])
              /\ ret.array[i] =
                    apply_calibration(calibration, <<op.values[i]>>,
                                      <<op.motor_names[i]>>).values[1]
    /\ (op.name = "revert_calibration" /\ op.applied_from = <<>> /\ err = NoError) =>
          \A i \in DOMAIN op.motor_names :
              /\ IsDegree(op.motor_names[i]) =>
                    ret.ticks[i] = OwnRawGoal(op.values.values[i], op.motor_names[i])
              /\ ret.ticks[i] =
                    revert_calibration(calibration, op.values.dtype,
                                       <<op.values.values[i]>>,
                                       <<op.motor_names[i]>>).values[1]

\* whether the calibration calib has an entry with range_min >= range_max
ViolatesRange(calib) ==
    /\ calib # NoCalibration
    /\ \E i \in DOMAIN calib.motor_names : calib.start_pos[i] >= calib.end_pos[i]

\* C19: the bus never holds a calibration with an entry whose range is empty
\* or inverted, so neither apply nor revert returns a value computed from one.
C19_RangeRejected ==
    /\ ~ViolatesRange(calibration)
    /\ (op.name \in {"apply_calibration", "revert_calibration"} /\ err = NoError) =>
          \A i \in DOMAIN op.motor_names :
              calibration.start_pos[CalibIndex(op.motor_names[i])]
                  < calibration.end_pos[CalibIndex(op.motor_names[i])]

\* whether an exchange inside the last call ended in a communication error:
\* the retries of a read ran out, or an id of a scan never answered
CommunicationFailed ==
    /\ wire # NoPacket
    /\ \/ /\ op.name \in {"read", "are_motors_configured"}
          /\ ~LoopSucceeds(NUM_READ_RETRY, op.num_invalid_try)
       \/ /\ op.name = "find_motor_indices"
          /\ \E i \in DOMAIN PossibleIds(op.possible_ids) :
                PossibleIds(op.possible_ids)[i] \notin op.answering

\* C20: a public bus operation inside which an exchange ended in a
\* communication error raises ConnectionError to its caller; it never returns
\* a normal value instead.
C20_ErrorsPropagate ==
    CommunicationFailed => (err = "ConnectionError" /\ ret = NoRet)

\* whether value fits bytes bytes: 0 <= value <= 2^(8*bytes) - 1 (every value
\* of CodecValues is below 2^32)
FitsWidth(value, bytes) ==
    /\ value >= 0
    /\ bytes = 1 => value < 256
    /\ bytes = 2 => value < 65536

\* 256^n
RECURSIVE Pow256(_)
Pow256(n) == IF n = 0 THEN 1 ELSE 256 * Pow256(n - 1)

\* C26: for a width in {1, 2, 4} and a value that fits it, the codec yields
\* exactly width bytes, each in [0, 255], the least significant first, and
\* their little-endian decoding is the value.
C26_CodecRoundTrip ==
    (/\ op.name = "convert_to_bytes"
     /\ op.bytes \in {1, 2, 4}
     /\ FitsWidth(op.value, op.bytes)) =>
        /\ err = NoError
        /\ Len(ret.data) = op.bytes
        /\ \A i \in DOMAIN ret.data :
              /\ ret.data[i] \in 0..255
              /\ ret.data[i] = (op.value \div Pow256(i - 1)) % 256
        /\ WireTick(ret.data) = op.value

C26_Witness ==
    /\ op = [name |-> "convert_to_bytes", value |-> 305419896, bytes |-> 4]
    /\ ret = [data |-> <<120, 86, 52, 18>>]

\* C27: for every width outside {1, 2, 4} the codec raises the
\* unsupported-width error and produces no bytes.
C27_UnsupportedWidth ==
    (op.name = "convert_to_bytes" /\ op.bytes \notin {1, 2, 4}) =>
        (err = "NotImplementedError" /\ ret = NoRet)

C27_Witness ==
    /\ op = [name |-> "convert_to_bytes", value |-> 100, bytes |-> 3]
    /\ err = "NotImplementedError"

\* C28: for a width in {1, 2, 4} and a value that is negative or does not fit
\* the width, the codec raises an error and produces no bytes.
C28_CodecRange ==
    (/\ op.name = "convert_to_bytes"
     /\ op.bytes \in {1, 2, 4}
     /\ ~FitsWidth(op.value, op.bytes)) =>
        (err # NoError /\ ret = NoRet)

\* C29: __del__() raises nothing; on an instance that is not connected (never
\* connected, or disconnected) it changes nothing, and on a connected one it
\* does what one disconnect() does: the port is closed, the handlers and the
\* group caches are dropped and the instance is no longer connected.
C29_DestructorTolerant ==
    [][ (op'.name = "__del__") =>
          /\ err' = NoError
          /\ ~is_connected'
          /\ IF is_connected
             THEN /\ port_handler' = None /\ packet_handler' = None
                  /\ group_readers' = EmptyCache /\ group_writers' = EmptyCache
                  /\ port_open' = port_open \ {port_handler}
                  /\ UNCHANGED <<motors, model_ctrl_table, calibration, next_handler,
                                 packet_timeout>>
             ELSE UNCHANGED <<bus, sdk>> ]_vars

\* a connected instance holding a group in each cache has been destroyed
C29_Witness ==
    /\ op.name = "__del__"
    /\ before.is_connected
    /\ before.readers # {} /\ before.writers # {}
    /\ err = NoError

\* whether the calls named occur in s in the order given
RECURSIVE InOrder(_, _)
InOrder(s, names) ==
    IF names = <<>> THEN TRUE
    ELSE /\ \E i \in DOMAIN s : s[i].call = names[1]
         /\ LET i == CHOOSE j \in DOMAIN s : s[j].call = names[1]
            IN  InOrder(SubSeq(s, i + 1, Len(s)), Tail(names))

\* the last of the calls named that s holds, or "none"
LastStep(s, names) ==
    LET at == {i \in DOMAIN s : s[i].call \in names}
    IN  IF at = {} THEN "none"
        ELSE s[CHOOSE i \in at : \A j \in at : j <= i].call

BeforeTheWrite ==
    {"disable_torque", "Operating_Mode", "set_half_turn_homings",
     "record_ranges_of_motion", "write_calibration",
     "find_offset", "find_min_max", "assemble"}

\* C21: the calibration file changes only in a calibrate() that has done the
\* homing, the recording of the ranges and the assembling of the entries
\* before it writes, and a calibrate() in which one of these steps raises
\* leaves the file as it was.
C21_SavedAfterSuccess ==
    [][ /\ (calibration_file' # calibration_file) =>
             \/ /\ op'.name = "SO100Follower.calibrate"
                /\ InOrder(steps', <<"set_half_turn_homings", "reset_calibration",
                                     "record_ranges_of_motion", "write_calibration",
                                     "_save_calibration">>)
                /\ (err' = NoError) => calibration_file' = robot_calibration'
             \/ /\ op'.name = "SO100Robot.calibrate"
                /\ InOrder(steps', <<"find_offset", "find_min_max", "assemble", "open">>)
        /\ ( /\ op'.name \in {"SO100Follower.calibrate", "SO100Robot.calibrate"}
             /\ err' # NoError
             /\ LastStep(steps', BeforeTheWrite \cup {"open", "json.dump", "_save_calibration"})
                  \in BeforeTheWrite \cup {"none"} )
           => calibration_file' = calibration_file
      ]_vars

C21_Witness ==
    /\ op.name = "SO100Follower.calibrate"
    /\ err = "ConnectionError"
    /\ LastStep(steps, BeforeTheWrite) = "record_ranges_of_motion"
    /\ calibration_file \notin {NoCalibration, TruncatedFile}

\* the sign at bit 11 and the magnitude in the bits below
SignMagnitude11(v) == IF v < 0 THEN 2048 - v ELSE v

\* the steps after the read of the positions
AfterRead(s) ==
    LET at == CHOOSE i \in DOMAIN s : s[i].call = "sync_read"
    IN  SubSeq(s, at + 1, Len(s))

\* C22: set_half_turn_homings gives every motor the offset raw position - 2047
\* and writes it to the Homing_Offset of the motor with the sign at bit 11 and
\* the magnitude below it.
C22_HalfTurnHomings ==
    (op.name = "set_half_turn_homings" /\ before.is_connected) =>
        LET written == AfterRead(steps)
        IN  /\ err \in {NoError, "ValueError"}
            /\ (err = NoError) =>
                  /\ Len(written) = Len(motor_names)
                  /\ \A n \in Range(motor_names) :
                        ret.homing_offsets[n] = op.positions[n] - 2047
            /\ \A i \in DOMAIN written :
                  written[i] = [call |-> "write", data_name |-> "Homing_Offset",
                                motor |-> motor_names[i],
                                value |-> SignMagnitude11(op.positions[motor_names[i]] - 2047)]

C22_Witness ==
    /\ op.name = "set_half_turn_homings"
    /\ err = NoError
    /\ op.positions["shoulder_pan"] = 1337
    /\ op.positions["shoulder_lift"] = 42
    /\ op.positions["elbow_flex"] = 3672
    /\ ret.homing_offsets["shoulder_pan"] = -710
    /\ ret.homing_offsets["shoulder_lift"] = -2005
    /\ ret.homing_offsets["elbow_flex"] = 1625
    /\ \E i \in DOMAIN steps :
          steps[i] = [call |-> "write", data_name |-> "Homing_Offset",
                      motor |-> "shoulder_pan", value |-> 2758]

C24_RecordRanges ==
    (op.name = "record_ranges_of_motion" /\ before.is_connected) =>
        LET reads == Len(steps)
            first_true == CHOOSE i \in DOMAIN op.presses :
                             op.presses[i] /\ \A j \in 1..(i - 1) : ~op.presses[j]
        IN  /\ err = NoError
            /\ reads = first_true + 1
            /\ (op.presses = <<FALSE, TRUE>>) => reads = 3
            /\ \A i \in DOMAIN steps :
                  steps[i] = [call |-> "sync_read", data_name |-> "Present_Position",
                              motors |-> op.motors]
            /\ DOMAIN ret.mins = Range(op.motors)
            /\ DOMAIN ret.maxes = Range(op.motors)
            /\ \A n \in Range(op.motors) :
                  /\ \A i \in 1..reads : ret.mins[n] <= op.stream[i][n]
                  /\ \E i \in 1..reads : ret.mins[n] = op.stream[i][n]
                  /\ \A i \in 1..reads : ret.maxes[n] >= op.stream[i][n]
                  /\ \E i \in 1..reads : ret.maxes[n] = op.stream[i][n]

C24_Witness ==
    /\ op.name = "record_ranges_of_motion"
    /\ err = NoError
    /\ op.presses = <<FALSE, TRUE>>
    /\ Len(steps) = 3
    /\ [i \in 1..3 |-> op.stream[i]["shoulder_pan"]] = <<351, 42, 1337>>
    /\ [i \in 1..3 |-> op.stream[i]["elbow_flex"]] = <<4002, 2999, 146>>
    /\ ret.mins["shoulder_pan"] = 42
    /\ ret.maxes["shoulder_pan"] = 1337
    /\ ret.maxes["elbow_flex"] = 4002

\* the steps of the recording in a calibrate()
RecordingSteps(s) ==
    LET from == CHOOSE i \in DOMAIN s : s[i].call = "record_ranges_of_motion"
        upto == IF \E i \in DOMAIN s : s[i].call = "write_calibration"
                THEN CHOOSE i \in DOMAIN s : s[i].call = "write_calibration"
                ELSE Len(s) + 1
    IN  SubSeq(s, from + 1, upto - 1)

\* C25: in a calibrate() that has assembled the calibration, no read of the
\* recording asks for wrist_roll, the entry of wrist_roll has the range 0 to
\* 4095, and the entry of every other motor has the smallest and the largest
\* of the samples read for it.
C25_FullTurnMotor ==
    ( /\ op.name = "SO100Follower.calibrate"
      /\ \E i \in DOMAIN steps : steps[i].call = "write_calibration" ) =>
        LET recording == RecordingSteps(steps)
            reads == Len(recording)
        IN  /\ reads >= 2
            /\ \A i \in DOMAIN recording :
                  /\ recording[i].call = "sync_read"
                  /\ "wrist_roll" \notin Range(recording[i].motors)
                  /\ Range(recording[i].motors) = Range(motor_names) \ {"wrist_roll"}
            /\ robot_calibration["wrist_roll"].range_min = 0
            /\ robot_calibration["wrist_roll"].range_max = 4095
            /\ \A n \in Range(motor_names) \ {"wrist_roll"} :
                  /\ \A i \in 1..reads : robot_calibration[n].range_min <= op.stream[i][n]
                  /\ \E i \in 1..reads : robot_calibration[n].range_min = op.stream[i][n]
                  /\ \A i \in 1..reads : robot_calibration[n].range_max >= op.stream[i][n]
                  /\ \E i \in 1..reads : robot_calibration[n].range_max = op.stream[i][n]

C25_Witness ==
    /\ op.name = "SO100Follower.calibrate"
    /\ err = NoError
    /\ \E i \in 1..Len(RecordingSteps(steps)) :
          op.stream[i]["wrist_roll"] \notin {0, 4095}
    /\ robot_calibration["wrist_roll"].range_min = 0
    /\ robot_calibration["wrist_roll"].range_max = 4095
    /\ robot_calibration["shoulder_pan"].range_min = 42
    /\ calibration_file = robot_calibration

\* C30: a call on one instance, failing or not, leaves the other instance as
\* it was: its is_connected, its handlers, its calibration, its control
\* table, its two caches and its port, and the objects its attributes refer to.
C30_PerInstanceState ==
    [][ \A b \in Buses :
          (op'.bus # b) =>
             /\ instances'[b] = instances[b]
             /\ ViewOf(b)' = ViewOf(b) ]_vars

\* both instances hold a reader and a writer, and a read on the first has
\* just failed while the second is connected and calibrated
C30_Witness ==
    /\ op = [name |-> "read", bus |-> 1]
    /\ err = "ConnectionError"
    /\ instances[2] # NoInstance
    /\ ViewOf(1).is_connected /\ ViewOf(2).is_connected
    /\ DOMAIN ViewOf(1).group_readers # {} /\ DOMAIN ViewOf(1).group_writers # {}
    /\ DOMAIN ViewOf(2).group_readers # {} /\ DOMAIN ViewOf(2).group_writers # {}
    /\ ViewOf(1).calibration = NoCalibration
    /\ ViewOf(2).calibration # NoCalibration
    /\ ViewOf(1).group_readers # ViewOf(2).group_readers

\* a discovery that reached its scan: the bus holds an open port and every
\* read is tried at least once
DiscoveryRan ==
    /\ op.name = "find_motor_indices"
    /\ op.num_retry >= 1
    /\ port_handler \in port_open

\* the places in the scan list of the devices that answer with another stored
\* id than the one addressed
Mismatches ==
    {i \in DOMAIN PossibleIds(op.possible_ids) :
        PossibleIds(op.possible_ids)[i] \in op.answering \cap op.damaged_ids}

\* C31: find_motor_indices raises OSError at the first scanned device whose
\* stored ID differs from the id it was addressed at, reading no id after it;
\* otherwise it returns the scanned ids that answered, in scan order, without
\* the ids whose read failed after the retries.
C31_IdSanityCheck ==
    DiscoveryRan =>
        IF Mismatches # {}
        THEN /\ err = "OSError" /\ ret = NoRet
             /\ built \in Mismatches
             /\ \A j \in Mismatches : built <= j
        ELSE /\ err = NoError
             /\ ret = [list |-> SelectSeq(PossibleIds(op.possible_ids),
                                          LAMBDA x : x \in op.answering)]

\* a scan stopped by the sanity check after an id that answered well and
\* before the end of the list
C31_Witness ==
    /\ DiscoveryRan
    /\ err = "OSError"
    /\ 1 < built /\ built < Len(PossibleIds(op.possible_ids))
    /\ PossibleIds(op.possible_ids)[1] \in op.answering

\* a scan on a sound line that skipped an id and returned the others
C31_WitnessSkipped ==
    /\ DiscoveryRan
    /\ err = NoError
    /\ ret # NoRet /\ ret.list = <<2, 1>>
    /\ op.possible_ids = [is_none |-> FALSE, ids |-> <<3, 2, 1>>]

\* C32: set_bus_baudrate(b) on a bus that holds a port handler either ends
\* without error with the port reporting b, or raises OSError after a write
\* the adapter did not confirm; a port already at b gets no baud-rate write.
C32_BaudRateConfirmed ==
    [][ (op'.name = "set_bus_baudrate" /\ port_handler # None) =>
          /\ \/ err' = NoError /\ getBaudRate(port_handler)' = op'.baudrate
             \/ /\ err' = "OSError"
                /\ getBaudRate(port_handler)' # op'.baudrate
                /\ wire' = [kind |-> "setBaudRate", rate |-> op'.baudrate]
          /\ getBaudRate(port_handler) = op'.baudrate =>
                (wire' = NoPacket /\ err' = NoError /\ UNCHANGED baudrate) ]_vars

\* a write of a new rate that the adapter did not confirm
C32_Witness ==
    /\ op.name = "set_bus_baudrate"
    /\ port_handler # None
    /\ err = "OSError"
    /\ wire = [kind |-> "setBaudRate", rate |-> 115200]
    /\ getBaudRate(port_handler) = 500000

\* a connect() whose port did not open
OpenFailed == op.name = "connect" /\ err = "OSError"

\* C33: a connect() whose port cannot be opened raises OSError and leaves the
\* bus not connected with both group caches empty, and the connect() that
\* follows it is attempted again: it is not rejected as already connected.
C33_FailedOpenStaysDisconnected ==
    [][ /\ OpenFailed' =>
            /\ ~is_connected'
            /\ group_readers' = EmptyCache /\ group_writers' = EmptyCache
        /\ (OpenFailed /\ op'.name = "connect") =>
            /\ err' # "DeviceAlreadyConnectedError"
            /\ port_handler' # port_handler
            /\ is_connected' = (err' = NoError) ]_vars

\* a connect() that went through on the bus a failed connect() left behind
C33_Witness ==
    /\ op.name = "connect"
    /\ err = NoError
    /\ is_connected
    /\ ~before.is_connected
    /\ before.port_handler # None
    /\ port_handler # before.port_handler

\* an exchange was made on the open port of a connected session
ExchangedInSession ==
    /\ op.name \in {"read", "write", "read_with_motor_ids", "write_with_motor_ids"}
    /\ calls > 0
    /\ is_connected
    /\ port_handler \in port_open

\* C34: whenever a read or a write made an exchange in a connected session,
\* opened by connect or by reconnect, the packet timeout of the session's
\* port handler had been set to TIMEOUT_MS.
C34_TimeoutBeforeExchange ==
    ExchangedInSession =>
        /\ port_handler \in DOMAIN packet_timeout
        /\ packet_timeout[port_handler] = TIMEOUT_MS

\* C36: whenever the bus is not connected, group_readers and group_writers
\* are both empty.
C36_NoCacheOutlivesSession ==
    ~is_connected => (group_readers = EmptyCache /\ group_writers = EmptyCache)

\* a bus disconnected after a session in which a read and a write each
\* cached a group
C36_Witness ==
    /\ op.name = "disconnect"
    /\ err = NoError
    /\ ~is_connected
    /\ before.readers # {} /\ before.writers # {}
    /\ group_readers = EmptyCache /\ group_writers = EmptyCache

\* C37: every port handler whose port is open is the one the bus refers to,
\* so at most one port of the bus is open at any time.
C37_NoPortLeak ==
    /\ \A h \in port_open : h = port_handler
    /\ Cardinality(port_open) <= 1

\* C35: a send_action that returns has returned, element for element, the
\* goal position it passed to the Goal_Position write of the arm, with and
\* without a max_relative_target.
C35_ReturnsActionSent ==
    (op.name = "send_action" /\ err = NoError) =>
        /\ steps # <<>>
        /\ steps[Len(steps)].call = "sync_write"
        /\ steps[Len(steps)].data_name = "Goal_Position"
        /\ ret = [goal_pos |-> steps[Len(steps)].values]

\* the registers of the operating parameters
OperatingParameters ==
    {"Mode", "Operating_Mode", "P_Coefficient", "I_Coefficient", "D_Coefficient",
     "Maximum_Acceleration", "Acceleration"}

\* the call c writes an operating parameter of the motor m
WritesParameter(c, m) ==
    c.call = "write" /\ c.data_name \in OperatingParameters /\ c.motor = m

\* the call c disables the torque of the motor m
DisablesTorque(c, m) ==
    \/ c.call = "disable_torque"
    \/ c.call = "write" /\ c.data_name = "Torque_Enable" /\ c.motor = m /\ c.value = 0

\* the call c enables torque
EnablesSomeTorque(c) ==
    \/ c.call = "enable_torque"
    \/ c.call = "write" /\ c.data_name = "Torque_Enable" /\ c.value = 1

\* the call c enables the torque of the motor m
EnablesTorque(c, m) ==
    \/ c.call = "enable_torque"
    \/ c.call = "write" /\ c.data_name = "Torque_Enable" /\ c.motor = m /\ c.value = 1

\* the call at place i of steps returned
Returned(i) == i < Len(steps) \/ err = NoError

\* C38: in every configure(), a write of an operating parameter to a motor
\* comes after a call that disabled the torque of that motor returned and
\* before any call that enables torque; once a call enables torque only such
\* calls follow; and torque has been enabled on every motor exactly when
\* configure() returned without error.
C38_ConfigureOrder ==
    (op.name = "configure") =>
        /\ \A i \in DOMAIN steps, m \in Range(motor_names) :
              WritesParameter(steps[i], m) =>
                 /\ \E j \in 1..(i - 1) : DisablesTorque(steps[j], m)
                 /\ \A j \in 1..(i - 1) : ~EnablesSomeTorque(steps[j])
        /\ \A i \in DOMAIN steps :
              EnablesSomeTorque(steps[i]) =>
                 \A j \in (i + 1)..Len(steps) : EnablesSomeTorque(steps[j])
        /\ (\A m \in Range(motor_names) :
               \E i \in DOMAIN steps : EnablesTorque(steps[i], m) /\ Returned(i))
           <=> (err = NoError)

\* a configure() of SO100Robot that failed after it had enabled the torque of
\* some motors, every parameter written
C38_Witness ==
    /\ op.name = "configure"
    /\ robot_class = "SO100Robot"
    /\ err = "ConnectionError"
    /\ \E i \in DOMAIN steps : EnablesTorque(steps[i], "shoulder_pan") /\ Returned(i)
    /\ \E i \in DOMAIN steps : WritesParameter(steps[i], "gripper")

\* a configure() of SO100Follower that went through
C38_WitnessFollower ==
    /\ op.name = "configure"
    /\ robot_class = "SO100Follower"
    /\ err = NoError
    /\ steps[Len(steps)].call = "enable_torque"

\* the connect() of the robot
RobotConnects == {"SO100Follower.connect", "SO100Robot.connect"}

\* C39: a connect() of the robot that raises the error of a step after the
\* opening of the arm leaves the robot connected with the port of the arm open; a
\* connect() on a connected robot raises DeviceAlreadyConnectedError and
\* changes nothing; and only disconnect() takes a connected robot back to not
\* connected.
C39_ConnectNotAtomic ==
    [][ /\ (op'.name \in RobotConnects /\ ~is_connected /\ err' = "ConnectionError") =>
               /\ op'.failed # "none"
               /\ is_connected' /\ port_handler' \in port_open'
        /\ (op'.name \in RobotConnects /\ is_connected) =>
               (err' = "DeviceAlreadyConnectedError" /\ UNCHANGED <<bus, sdk>>)
        /\ (is_connected /\ ~is_connected') => op'.name = "robot.disconnect" ]_vars

\* a connect() rejected on the robot a failed connect() left connected
C39_Witness ==
    /\ op.name \in RobotConnects
    /\ err = "DeviceAlreadyConnectedError"
    /\ is_connected
    /\ port_handler \in port_open
    /\ robot_class = "SO100Follower" => calibration = NoCalibration
    /\ robot_class = "SO100Robot" => calibration_file = NoCalibration

\* C40: the action and the buttons a get_action has returned are a pair that
\* one update of the reader process published.
C40_ConsistentSnapshot ==
    (joy_caller.pc = "returned") => (<<joy_caller.action, joy_caller.buttons>> \in published)

====
